---- MODULE Spec2Model ----
(***************************************************************************)
(* Investment analysis pipeline of newTest.py: rent estimation (parallel   *)
(* workers, one per property file), merge, cash-flow stage, mortgage and   *)
(* return stage, outlier filter.                                           *)
(*                                                                         *)
(* Number representation.  Python floats are modelled by scaled integers:  *)
(*   money      cents (a whole-dollar amount is a multiple of 100);        *)
(*   rates      inside a function: 1/10000 of the natural unit (percent,   *)
(*              fraction or multiple), written "x4"; in a CSV column:      *)
(*              1/100 of the natural unit, which is what round(v, 2)       *)
(*              leaves;                                                    *)
(*   factors    rent adjustment factors: 1/10^7.                           *)
(* A real product or quotient is rounded half-even to the resolution of    *)
(* its result, so a model value may differ from the double the code holds  *)
(* by one unit of that resolution.                                         *)
(* An empty CSV cell / Python None is the value None, a cell holding text  *)
(* that float() rejects is the value Bad.                                  *)
(***************************************************************************)
EXTENDS Integers, Sequences, FiniteSets, TLC

VARIABLES
    now,            \* [year, month]: datetime.now() during the run
    zoriFile,       \* zillow_rent_data.csv: [rows, seasonality]; rows Missing: no file
    zori,           \* the loaded rent index (load_zori_data's result; None before)
    inputFiles,     \* PROPERTY_DATA_FILES: a sequence of files (row sequences or Missing)
    pc,             \* main()'s position
    task,           \* per partition: "queued" | "running" | "done" | "failed"
    cursor,         \* per partition: rows of the input read so far by its worker
    tempZori,       \* per partition: temp_zori_estimates_{i}.csv
    doneOrder,      \* partitions in the order their futures completed
    mergedZori,     \* merged_zori_estimates.csv
    mergedCashFlow, \* merged_cash_flow.csv
    tempFinal,      \* final.csv.temp
    finalOut,       \* final.csv
    exitCode,       \* process exit status (None while running)
    call            \* a single function application (function-level specifications)

vars == <<now, zoriFile, zori, inputFiles, pc, task, cursor, tempZori, doneOrder,
          mergedZori, mergedCashFlow, tempFinal, finalOut, exitCode, call>>

pipelineVars == <<now, zoriFile, zori, inputFiles, pc, task, cursor, tempZori, doneOrder,
                  mergedZori, mergedCashFlow, tempFinal, finalOut, exitCode>>

----------------------------------------------------------------------------
(* Values and arithmetic *)

None == 0 - 2000000000
Bad == 0 - 2000000001
\* a file that does not exist
Missing == <<[missing_file |-> 1]>>

Abs(x) == IF x < 0 THEN 0 - x ELSE x
Min(a, b) == IF a < b THEN a ELSE b
Max(a, b) == IF a > b THEN a ELSE b
Sign(x) == IF x < 0 THEN 0 - 1 ELSE 1

\* <<floor(a*b/c), (a*b) % c>> for a, b >= 0 and c > 0, without forming
\* a product above 2^31 - 1 (TLC integers are 32 bits wide): b is taken in
\* digits of base t, the largest t with a * t below 2^31.

AddQR(q, h, lo, c) ==
    IF h[2] >= c - lo THEN <<q + h[1] + 1, h[2] - (c - lo)>>
    ELSE <<q + h[1], h[2] + lo>>

RECURSIVE MulDivQR(_, _, _)
RECURSIVE MulDivDigits(_, _, _, _)
MulDivDigits(a, b, c, t) ==
    IF b <= t THEN <<(a * b) \div c, (a * b) % c>>
    ELSE AddQR(((a * t) \div c) * (b \div t) + (a * (b % t)) \div c,
               MulDivQR((a * t) % c, b \div t, c),
               (a * (b % t)) % c, c)

MulDivQR(a, b, c) ==
    IF a = 0 \/ b = 0 THEN <<0, 0>>
    ELSE IF a >= c THEN AddQR((a \div c) * b, MulDivQR(a % c, b, c), 0, c)
    ELSE MulDivDigits(a, b, c, 2147483647 \div a)

\* the quotient of <<q, r>> rounded half-even on the remainder r of a division by c
RoundQR(qr, c) ==
    IF qr[2] > c - qr[2] \/ (qr[2] = c - qr[2] /\ qr[1] % 2 = 1)
    THEN qr[1] + 1 ELSE qr[1]

\* round-half-even of a*b/c (Python's round on the real product), any signs of a, b.
MulDivRound(a, b, c) ==
    Sign(a) * Sign(b)
    * RoundQR(MulDivQR(Max(Abs(a), Abs(b)), Min(Abs(a), Abs(b)), c), c)

RoundDiv(n, d) == MulDivRound(n, 1, d)

\* round_price: int(round(float(value))); None for None or '', the value itself
\* when float() rejects it.  Money is in cents, so the result is a multiple of 100.
RoundPriceMutNoRound(value) == value
round_price(value) ==
    IF value = None \/ value = Bad THEN value
    ELSE 100 * RoundDiv(value, 100)

\* round(v, 2) of an x4 rate: to 1/100 of the natural unit.
Round2(v4) == RoundDiv(v4, 100)

\* an empty dict
EmptyDict == [k \in {} |-> None]

\* float(row.get(k, 0) or 0)
Float0(v) == IF v = None THEN 0 ELSE v
IsBad(v) == v = Bad

----------------------------------------------------------------------------
(* Global tables *)

\* NEIGHBORHOOD_QUALITY (excerpt: the ZIPs the model's inputs use) in 1/100.
NEIGHBORHOOD_QUALITY_default == 75
NEIGHBORHOOD_QUALITY(zip_code) ==
    CASE zip_code = 10013 -> 95
      [] zip_code = 10025 -> 90
      [] zip_code = 10026 -> 87
      [] zip_code = 10034 -> 80
      [] zip_code = 90011 -> 75
      [] OTHER -> NEIGHBORHOOD_QUALITY_default

get_neighborhood_factor(zip_code) == NEIGHBORHOOD_QUALITY(zip_code)

\* PROPERTY_TYPE_MODIFIERS['rent'] and ['growth'], in 1/100.
RentModifier(style) ==
    CASE style = "Condo" -> 115
      [] style = "Co-op" -> 95
      [] style = "Single Family" -> 105
      [] style = "Multi Family" -> 90
      [] style = "Townhouse" -> 110
      [] style = "Luxury" -> 125
      [] OTHER -> 100

GrowthModifier(style) ==
    CASE style = "Condo" -> 105
      [] style = "Co-op" -> 95
      [] style = "Single Family" -> 102
      [] style = "Multi Family" -> 108
      [] style = "Townhouse" -> 104
      [] OTHER -> 100

\* BASE_RATES in 1/100 percent, by list price in cents.
BaseRate(list_price) ==
    IF list_price < 25000000 THEN 800
    ELSE IF list_price < 50000000 THEN 775
    ELSE IF list_price < 75000000 THEN 750
    ELSE IF list_price < 100000000 THEN 725
    ELSE 700

MAX_WORKERS == 4

----------------------------------------------------------------------------
(* Financing policy *)

\* calculate_down_payment_pct: x4 fraction; list_price in cents, neighborhood
\* factor in 1/100.
DownPaymentMutInclusive(list_price, neighborhood_factor) ==
    LET base == IF list_price <= 20000000 THEN 3500
                ELSE IF list_price <= 50000000 THEN 4000
                ELSE IF list_price <= 75000000 THEN 4500
                ELSE IF list_price <= 100000000 THEN 5000
                ELSE 5500
    IN Min(6000, Max(3000, base - (neighborhood_factor - 75) * 5))

calculate_down_payment_pct(list_price, neighborhood_factor) ==
    LET base == IF list_price < 20000000 THEN 3500
                ELSE IF list_price < 50000000 THEN 4000
                ELSE IF list_price < 75000000 THEN 4500
                ELSE IF list_price < 100000000 THEN 5000
                ELSE 5500
        down_payment_pct == base - (neighborhood_factor - 75) * 5
    IN Min(6000, Max(3000, down_payment_pct))

\* determine_mortgage_terms: <<interest rate in 1/100 percent, loan term in years>>.
MortgageTermsMutNoClamp(list_price, neighborhood_factor) ==
    <<BaseRate(list_price) - (neighborhood_factor - 75),
      IF list_price < 50000000 THEN 15
      ELSE IF list_price < 75000000 THEN 20 ELSE 25>>

determine_mortgage_terms(list_price, neighborhood_factor) ==
    LET neighborhood_adjustment == neighborhood_factor - 75
        interest_rate == Min(900, Max(600, BaseRate(list_price) - neighborhood_adjustment))
        loan_term == IF list_price < 50000000 THEN 15
                     ELSE IF list_price < 75000000 THEN 20
                     ELSE 25
    IN <<interest_rate, loan_term>>

----------------------------------------------------------------------------
(* Rent index *)

\* load_zori_data.  The index file is modelled by its rows after the
\* per-row derivations of lines 338-346: [zip, state, rent, cagr] with rent
\* the latest rent in cents (None when the latest cell is empty) and cagr the
\* five-year CAGR in 1/100 percent; avg_seasonality (lines 385-396) is given
\* per month in 1/100 percent.  Rows without a latest rent are not stored
\* (line 366); state averages are sum / count over the stored rows.
StoredRows(indexRows) == SelectSeq(indexRows, LAMBDA r : r.rent # None /\ r.rent # 0)

RECURSIVE SumRent(_, _)
SumRent(rows, st) ==
    IF rows = <<>> THEN 0
    ELSE (IF Head(rows).state = st THEN Head(rows).rent ELSE 0) + SumRent(Tail(rows), st)

CountState(rows, st) == Len(SelectSeq(rows, LAMBDA r : r.state = st))

load_zori_data(indexRows, seasonality) ==
    LET stored == StoredRows(indexRows)
        states == {stored[i].state : i \in 1..Len(stored)}
    IN [entries |-> stored,
        avg_seasonality |-> seasonality,
        state_averages |-> [st \in states |->
                               RoundDiv(SumRent(stored, st), CountState(stored, st))]]

IndexZips(entries) == {entries[i].zip : i \in 1..Len(entries)}
EntryOf(entries, zip_code) ==
    entries[CHOOSE i \in 1..Len(entries) :
                entries[i].zip = zip_code
                /\ \A j \in 1..Len(entries) : entries[j].zip = zip_code => j <= i]

\* find_closest_zip_with_data: the ZIP itself when indexed; else the first index
\* ZIP (in index order) at the least |zip - target|, a key int() rejects (Bad)
\* being skipped; None when no key is an integer.
RECURSIVE ClosestFrom(_, _, _, _)
ClosestFrom(entries, target, closest_zip, min_distance) ==
    IF entries = <<>> THEN closest_zip
    ELSE IF IsBad(Head(entries).zip)
    THEN ClosestFrom(Tail(entries), target, closest_zip, min_distance)
    ELSE LET distance == Abs(Head(entries).zip - target)
         IN IF closest_zip = None \/ distance < min_distance
            THEN ClosestFrom(Tail(entries), target, Head(entries).zip, distance)
            ELSE ClosestFrom(Tail(entries), target, closest_zip, min_distance)

FindClosestMutLast(target_zip, entries) ==
    IF target_zip \in IndexZips(entries) THEN target_zip
    ELSE IF entries = <<>> THEN None ELSE entries[Len(entries)].zip

find_closest_zip_with_data(target_zip, entries) ==
    IF target_zip \in IndexZips(entries) THEN target_zip
    ELSE ClosestFrom(entries, target_zip, None, 0)

----------------------------------------------------------------------------
(* Property characteristic adjustment factors *)

\* calculate_bed_bath_factor, in 1/10^7; beds a whole number, baths2 the bath
\* count in halves (2 * full_baths + half_baths).
calculate_bed_bath_factor(beds, baths2) ==
    LET bed_value == CASE beds = 0 -> 85
                       [] beds = 1 -> 100
                       [] beds = 2 -> 120
                       [] beds = 3 -> 135
                       [] beds >= 4 -> 145
                       [] OTHER -> 100
        bath_value == IF baths2 < 2 THEN 90
                      ELSE IF baths2 = 2 THEN 100
                      ELSE IF baths2 = 3 THEN 105
                      ELSE IF baths2 = 4 THEN 110
                      ELSE IF baths2 <= 6 THEN 120
                      ELSE 125
    IN IF beds # 0 /\ baths2 # 0 /\ beds > 0 /\ baths2 >= 3 * beds
       THEN (bed_value + bath_value) * 52500
       ELSE (bed_value + bath_value) * 50000

\* calculate_size_factor, in 1/100.
calculate_size_factor(sqft) ==
    IF sqft = 0 \/ sqft <= 0 THEN 100
    ELSE IF sqft < 500 THEN 85
    ELSE IF sqft < 750 THEN 95
    ELSE IF sqft < 1000 THEN 100
    ELSE IF sqft < 1500 THEN 110
    ELSE IF sqft < 2000 THEN 120
    ELSE IF sqft < 3000 THEN 130
    ELSE 140

\* calculate_condition_factor, in 1/100; current_year is datetime.now().year.
calculate_condition_factor(year_built, current_year) ==
    IF year_built = 0 \/ year_built <= 0 THEN 100
    ELSE LET age == current_year - year_built
         IN IF age < 3 THEN 115
            ELSE IF age < 10 THEN 110
            ELSE IF age < 20 THEN 105
            ELSE IF age < 40 THEN 100
            ELSE IF age < 75 THEN 95
            ELSE 90

\* calculate_amenity_score, in 1/100.  row.text is the number of luxury keywords
\* found in the description; hoa_fee is in cents.
calculate_amenity_score(row) ==
    LET keyword_count == Float0(row.text)
        kw == Min(20, keyword_count)
        parking == IF row.parking_garage # None /\ Float0(row.parking_garage) > 0
                   THEN 5 ELSE 0
        hoa_fee == Float0(row.hoa_fee)
        hoa == IF IsBad(row.hoa_fee) THEN 0
               ELSE IF hoa_fee > 50000 THEN 5
               ELSE IF hoa_fee > 100000 THEN 10
               ELSE 0
    IN 100 + kw + parking + hoa

\* calculate_growth_rate, x4 percent (the function returns the decimal, its
\* caller multiplies by 100).  growth data of a ZIP not in the index: 3.0.
FiveYearCagr(zip_code, entries) ==
    IF zip_code # None /\ zip_code \in IndexZips(entries)
    THEN EntryOf(entries, zip_code).cagr ELSE 300

GrowthRateMutNoClamp(zip_code, neighborhood_factor, property_style, entries) ==
    100 * (FiveYearCagr(zip_code, entries) + neighborhood_factor * 2
           + (GrowthModifier(property_style) - 100))

calculate_growth_rate(zip_code, neighborhood_factor, property_style, entries) ==
    LET five_year_cagr == FiveYearCagr(zip_code, entries)
        base_growth_rate == Min(600, Max(200, five_year_cagr))
        neighborhood_adjustment == neighborhood_factor * 2
        property_adjustment == GrowthModifier(property_style) - 100
        growth_rate == Min(1000, Max(200, base_growth_rate + neighborhood_adjustment
                                            + property_adjustment))
    IN 100 * growth_rate

\* calculate_exit_cap_rate, all in 1/10^6 (decimal): entry cap rate, growth rate;
\* the neighborhood factor in 1/100.
ExitCapMutNoClamp(entry_cap_rate, growth_rate, neighborhood_factor) ==
    entry_cap_rate + Max(0, 10000 - (neighborhood_factor - 75) * 150
                            - (growth_rate - 30000) \div 2)

ExitCapMutExpansionSigned(entry_cap_rate, growth_rate, neighborhood_factor) ==
    Min(100000, Max(40000, (IF entry_cap_rate > 1000000 THEN entry_cap_rate \div 100
                            ELSE entry_cap_rate)
                           + 10000 - (neighborhood_factor - 75) * 150
                           - RoundDiv(growth_rate - 30000, 2)))

calculate_exit_cap_rate(entry_cap_rate, growth_rate, neighborhood_factor) ==
    LET entry == IF entry_cap_rate > 1000000 THEN entry_cap_rate \div 100
                 ELSE entry_cap_rate
        base_expansion == 10000
        neighborhood_adjustment == (neighborhood_factor - 75) * 150
        growth_adjustment == RoundDiv(growth_rate - 30000, 2)
        cap_rate_expansion == Max(0, base_expansion - neighborhood_adjustment
                                     - growth_adjustment)
        exit_cap_rate == entry + cap_rate_expansion
    IN Min(100000, Max(40000, exit_cap_rate))


----------------------------------------------------------------------------
(* Rental income estimation *)

NoEstimate ==
    [monthly_rent |-> None, annual_rent |-> None, growth_rate |-> None,
     projections |-> None, grm |-> None]

\* str(int(float(row.get('zip_code', 0) or 0)))
ZipOf(row) == Float0(row.zip_code)

\* Lines 824-839: the ZIP whose data is used and the base rent (cents).
\* source: "zip" (own ZIP), "closest", "state" or "none".
BaseRentOf(own, zip_code, state, entries, state_averages) ==
    IF zip_code = None
    THEN IF state \in DOMAIN state_averages
         THEN [source |-> "state", zip_code |-> None,
               base_zori_rent |-> state_averages[state]]
         ELSE [source |-> "none", zip_code |-> None, base_zori_rent |-> None]
    ELSE [source |-> IF own = zip_code THEN "zip" ELSE "closest",
          zip_code |-> zip_code,
          base_zori_rent |-> EntryOf(entries, zip_code).rent]

ResolveMutNoStateFallback(row, entries, state_averages) ==
    BaseRentOf(ZipOf(row), find_closest_zip_with_data(ZipOf(row), entries),
               row.state, entries, EmptyDict)

ResolveBaseRent(row, entries, state_averages) ==
    BaseRentOf(ZipOf(row), find_closest_zip_with_data(ZipOf(row), entries),
               row.state, entries, state_averages)

EstimateRaisesMutEmpty(row) ==
    \E k \in {"zip_code", "beds", "full_baths", "half_baths", "sqft", "year_built"} :
        row[k] \in {None, Bad}

\* float() of a numeric input of estimate_rental_income raises.
EstimateRaises(row) ==
    \/ IsBad(row.zip_code)
    \/ IsBad(row.beds) \/ IsBad(row.full_baths) \/ IsBad(row.half_baths)
    \/ IsBad(row.sqft) \/ IsBad(row.year_built) \/ IsBad(row.parking_garage)

\* lines 886-890: the rent of years 1..n
RECURSIVE Projections(_, _, _)
Projections(rent, growth4, n) ==
    IF n = 0 THEN <<>>
    ELSE <<rent>> \o Projections(MulDivRound(rent, 1000000 + growth4, 1000000),
                                 growth4, n - 1)

\* str(row.get('style', '')).strip() or 'default'
StyleOf(row) == IF row.style = "" THEN "default" ELSE row.style

\* lines 856-859: 1 + avg_seasonality.get(datetime.now().month, 0) / 100, in 1/10000
SeasonalityFactor(avg_seasonality, clock) ==
    10000 + (IF clock.month \in DOMAIN avg_seasonality
             THEN avg_seasonality[clock.month] ELSE 0)

\* lines 866-875, in 1/10^7
AdjustmentFactor(row, avg_seasonality, clock) ==
    MulDivRound((calculate_bed_bath_factor(Float0(row.beds),
                     2 * Float0(row.full_baths) + Float0(row.half_baths)) * 35
                 + calculate_size_factor(Float0(row.sqft)) * 2500000
                 + calculate_condition_factor(Float0(row.year_built), clock.year)
                   * 1500000
                 + calculate_amenity_score(row) * 1500000
                 + RentModifier(StyleOf(row)) * 1000000) \div 100,
                SeasonalityFactor(avg_seasonality, clock), 10000)

AdjustedRentMutNoUnits(row, base_zori_rent, avg_seasonality, clock) ==
    MulDivRound(base_zori_rent, AdjustmentFactor(row, avg_seasonality, clock), 10000000)

\* lines 860-878: the adjusted monthly rent, cents
AdjustedRent(row, base_zori_rent, avg_seasonality, clock) ==
    IF StyleOf(row) = "Multi Family" /\ Float0(row.beds) >= 4
    THEN MulDivRound(base_zori_rent * Max(2, Float0(row.beds) \div 2), 85, 100)
    ELSE MulDivRound(base_zori_rent, AdjustmentFactor(row, avg_seasonality, clock),
                     10000000)

\* lines 880-881: the factor of zip_code, which by then is the ZIP the base
\* rent was taken from (lines 827-829), or None for the state average
EstimateFactor(zip_code) ==
    IF zip_code = None THEN NEIGHBORHOOD_QUALITY_default
    ELSE get_neighborhood_factor(zip_code)

\* lines 960-961, 1120-1121 and 700-703: the factor of the row's own ZIP
RowFactor(row) == get_neighborhood_factor(ZipOf(row))

\* lines 880-884, x4 percent
GrowthRateOf(row, zip_code, entries) ==
    calculate_growth_rate(zip_code, EstimateFactor(zip_code), StyleOf(row), entries)

\* lines 895-900, x4
GrossRentMultiplier(row, annual_rent) ==
    IF IsBad(row.list_price) \/ annual_rent <= 0 THEN 0
    ELSE MulDivRound(Float0(row.list_price), 10000, annual_rent)

\* line 902: the tuple returned
EstimateTuple(row, adjusted_rent, growth_rate) ==
    [monthly_rent |-> adjusted_rent, annual_rent |-> adjusted_rent * 12,
     growth_rate |-> growth_rate,
     projections |-> Projections(adjusted_rent, growth_rate, 5),
     grm |-> GrossRentMultiplier(row, adjusted_rent * 12)]

EstimateFrom(row, base, index, clock) ==
    IF base.source = "none" \/ EstimateRaises(row) THEN NoEstimate
    ELSE EstimateTuple(row,
                       AdjustedRent(row, base.base_zori_rent,
                                    index.avg_seasonality, clock),
                       GrowthRateOf(row, base.zip_code, index.entries))

\* estimate_rental_income(row, zori_by_zip, growth_rates_by_zip, avg_seasonality,
\* state_averages) at the date clock: [monthly_rent, annual_rent (cents),
\* growth_rate (x4 percent), projections, grm (x4)] or NoEstimate.
estimate_rental_income(row, index, clock) ==
    IF IsBad(row.zip_code) THEN NoEstimate
    ELSE EstimateFrom(row,
                      ResolveBaseRent(row, index.entries, index.state_averages),
                      index, clock)

----------------------------------------------------------------------------
(* Records: a CSV row or a metrics dict is a function from column names *)

\* d.get(k, default)
Get(d, k, default) == IF k \in DOMAIN d THEN d[k] ELSE default

\* dict update: the keys of upd overwrite or extend d
Update(d, upd) ==
    [k \in DOMAIN d \cup DOMAIN upd |-> IF k \in DOMAIN upd THEN upd[k] ELSE d[k]]

\* the row as csv.DictWriter writes it under the header fieldnames: a missing
\* key is written as an empty cell
WriteRow(row, fieldnames) ==
    [k \in fieldnames |-> IF k \in DOMAIN row THEN row[k] ELSE None]

NoiKey == <<"noi_year1", "noi_year2", "noi_year3", "noi_year4", "noi_year5">>
UcfKey == <<"ucf_year1", "ucf_year2", "ucf_year3", "ucf_year4", "ucf_year5">>
LcfKey == <<"lcf_year1", "lcf_year2", "lcf_year3", "lcf_year4", "lcf_year5">>
PrincipalKey == <<"principal_paid_year1", "principal_paid_year2",
                  "principal_paid_year3", "principal_paid_year4",
                  "principal_paid_year5">>
BalanceKey == <<"loan_balance_year1", "loan_balance_year2", "loan_balance_year3",
                "loan_balance_year4", "loan_balance_year5">>
ZoriRentKey == <<"zori_rent_year1", "zori_rent_year2", "zori_rent_year3",
                 "zori_rent_year4", "zori_rent_year5">>

Range(seq) == {seq[i] : i \in 1..Len(seq)}

\* DOLLAR_FIELDS (those that are columns of the model)
DOLLAR_FIELDS ==
    {"list_price", "tax", "zori_monthly_rent", "zori_annual_rent",
     "monthly_rent", "annual_rent", "tax_used", "hoa_fee_used",
     "cash_equity", "transaction_cost", "ucf",
     "loan_amount", "monthly_payment", "annual_debt_service",
     "total_principal_paid", "final_loan_balance", "accumulated_cash_flow",
     "exit_value", "equity_at_exit"}
    \cup Range(ZoriRentKey) \cup Range(NoiKey) \cup Range(UcfKey)
    \cup Range(PrincipalKey) \cup Range(BalanceKey) \cup Range(LcfKey)

\* Columns holding a rate (x4 inside a function, 1/100 in a cell).
RateKeys ==
    {"zori_growth_rate", "gross_rent_multiplier", "down_payment_pct",
     "interest_rate", "cap_rate", "cash_yield", "exit_cap_rate", "cash_on_cash",
     "irr", "total_return"}

\* process_row_values: every non-empty dollar field is rounded to whole dollars
\* (the phone columns are not part of the model).
process_row_values(row) ==
    [k \in DOMAIN row |->
        IF k \in DOLLAR_FIELDS /\ row[k] # None THEN round_price(row[k]) ELSE row[k]]

\* the extra rounding loops of the stage functions (lines 1257-1260, 1378-1381,
\* 1441-1445)
RoundFields(row, fields) ==
    [k \in DOMAIN row |->
        IF k \in fields /\ row[k] # None THEN round_price(row[k]) ELSE row[k]]

\* round(value, 2) of a metric on its way into a cell
Round2Of(key, value) == IF key \in RateKeys THEN Round2(value) ELSE value

\* float(cell) on its way into a metrics dict
FloatOf(key, cell) == IF key \in RateKeys THEN 100 * cell ELSE cell


----------------------------------------------------------------------------
(* Stage 1: rental estimates (one row of process_rental_estimates_for_file) *)

ZoriFields ==
    {"zori_monthly_rent", "zori_annual_rent", "zori_growth_rate",
     "gross_rent_multiplier"} \cup Range(ZoriRentKey)

\* lines 1266-1285: the cells written for the estimate est
ZoriCells(est) ==
    IF est.monthly_rent # None /\ est.monthly_rent # 0
    THEN [k \in ZoriFields |->
            CASE k = "zori_monthly_rent" -> round_price(est.monthly_rent)
              [] k = "zori_annual_rent" -> round_price(est.annual_rent)
              [] k = "zori_growth_rate" -> Round2(est.growth_rate)
              [] k = "gross_rent_multiplier" ->
                     IF est.grm # 0 THEN Round2(est.grm) ELSE None
              [] OTHER ->
                     round_price(est.projections[
                         CHOOSE i \in 1..5 : ZoriRentKey[i] = k])]
    ELSE [k \in ZoriFields |-> None]

\* lines 1242-1287 for the row after its dollar fields are rounded
WithEstimate(row, est, fieldnames) == WriteRow(Update(row, ZoriCells(est)), fieldnames)

EstimatedRow(row, index, clock, fieldnames) ==
    WithEstimate(row, estimate_rental_income(row, index, clock), fieldnames)

\* one row of process_rental_estimates_for_file
RentalEstimateRow(row0, index, clock) ==
    EstimatedRow(RoundFields(process_row_values(row0), {"list_price"}),
                 index, clock, DOMAIN row0 \cup ZoriFields)

----------------------------------------------------------------------------
(* Stage 2: cash flow metrics *)

\* The rent the cash-flow stage uses: the ZORI estimate when the cell is not
\* empty, else the PTR formula (lines 928-955).  [ok, monthly_rent,
\* annual_rent (cents), growth_rate (x4 percent)]; ok is FALSE when the
\* function returns before storing a rent.
CashFlowRent(row, list_price) ==
    IF row.zori_monthly_rent # None
    THEN [ok |-> row.zori_annual_rent # None /\ row.zori_growth_rate # None,
          monthly_rent |-> row.zori_monthly_rent,
          annual_rent |-> row.zori_annual_rent,
          growth_rate |-> 100 * row.zori_growth_rate]
    ELSE IF \/ IsBad(row.PTR) \/ Float0(row.PTR) <= 0 \/ IsBad(row.sqft)
            \/ IsBad(row.price_per_sqft) \/ IsBad(row.beds) \/ IsBad(row.full_baths)
    THEN [ok |-> FALSE, monthly_rent |-> 0, annual_rent |-> 0, growth_rate |-> 0]
    ELSE LET ptr_value == Float0(row.PTR)       \* in 1/10000
             sqft == Float0(row.sqft)
             price_per_sqft == Float0(row.price_per_sqft)
             bre == IF sqft > 0 /\ price_per_sqft > 0
                    THEN sqft * price_per_sqft ELSE list_price
             beds == Float0(row.beds)
             full_baths == Float0(row.full_baths)
             \* af in 1/100
             af == 100 + 5 + 2 * beds + full_baths + (IF sqft > 2000 THEN 5 ELSE 0)
             monthly_rent == MulDivRound(MulDivRound(bre, ptr_value, 10000), af, 100)
         IN [ok |-> TRUE,
             monthly_rent |-> monthly_rent,
             annual_rent |-> monthly_rent * 12,
             growth_rate |-> 30000]

\* NOI of years 1..n (lines 992-1006): rent less 18% of rent, HOA and insurance.
RECURSIVE NoiYears(_, _, _, _, _)
NoiYears(current_rent, growth4, hoa_fee, list_price, n) ==
    IF n = 0 THEN <<>>
    ELSE LET vacancy == MulDivRound(current_rent, 5, 100)
             management == MulDivRound(current_rent, 8, 100)
             maintenance == MulDivRound(current_rent, 5, 100)
             insurance == MulDivRound(list_price, 5, 1000)
             total_expenses == hoa_fee * 12 + vacancy + management + maintenance
                               + insurance
             noi == current_rent - total_expenses
         IN <<noi>> \o NoiYears(MulDivRound(current_rent, 1000000 + growth4, 1000000),
                                growth4, hoa_fee, list_price, n - 1)

CapRateMutNoClamp(noi_year1, list_price) == MulDivRound(noi_year1, 1000000, list_price)

\* lines 1009-1013: cap rate in x4 percent
CapRate(noi_year1, list_price) ==
    IF list_price > 0
    THEN Min(150000, Max(0 - 50000, MulDivRound(noi_year1, 1000000, list_price)))
    ELSE 0

TaxUsedMutNoDefault(row, list_price) == Float0(row.tax)

\* lines 967-970 and 972-975
TaxUsed(row, list_price) ==
    IF Float0(row.tax) = 0 THEN list_price \div 100 ELSE Float0(row.tax)

HoaFeeUsed(row, list_price) ==
    IF Float0(row.hoa_fee) = 0
    THEN MulDivRound(list_price, 15, 120000) ELSE Float0(row.hoa_fee)

\* lines 957-958
RentMetrics(rent) ==
    [k \in {"monthly_rent", "annual_rent"} |->
        IF k = "monthly_rent" THEN rent.monthly_rent ELSE rent.annual_rent]

\* line 988
CashEquity(list_price, transaction_cost, down_payment_pct) ==
    MulDivRound(list_price + transaction_cost, down_payment_pct, 10000)

\* the dict returned at line 1024
CashFlowDict(list_price, rent, tax, hoa_fee, down_payment_pct, terms, cash_equity, noi) ==
    [k \in {"monthly_rent", "annual_rent", "tax_used", "hoa_fee_used",
            "down_payment_pct", "interest_rate", "loan_term",
            "transaction_cost", "cash_equity", "cap_rate", "ucf", "cash_yield"}
           \cup Range(NoiKey) \cup Range(UcfKey) |->
        CASE k = "monthly_rent" -> rent.monthly_rent
          [] k = "annual_rent" -> rent.annual_rent
          [] k = "tax_used" -> tax
          [] k = "hoa_fee_used" -> hoa_fee
          [] k = "down_payment_pct" -> down_payment_pct
          [] k = "interest_rate" -> 100 * terms[1]
          [] k = "loan_term" -> terms[2]
          [] k = "transaction_cost" -> list_price \div 100
          [] k = "cash_equity" -> cash_equity
          [] k = "cap_rate" -> CapRate(noi[1], list_price)
          [] k = "ucf" -> noi[1] - tax
          [] k = "cash_yield" ->
                IF cash_equity > 0
                THEN MulDivRound(noi[1] - tax, 1000000, cash_equity) ELSE 0
          [] k \in Range(NoiKey) -> noi[CHOOSE i \in 1..5 : NoiKey[i] = k]
          [] OTHER -> noi[CHOOSE i \in 1..5 : UcfKey[i] = k] - tax]

\* lines 977-1006 for the financing terms
CashFlowFinanced(list_price, rent, tax, hoa_fee, down_payment_pct, terms) ==
    CashFlowDict(list_price, rent, tax, hoa_fee, down_payment_pct, terms,
                 CashEquity(list_price, list_price \div 100, down_payment_pct),
                 NoiYears(rent.annual_rent, rent.growth_rate, hoa_fee, list_price, 5))

\* lines 957-1024 for the rent chosen
CashFlowWithRent(row, list_price, rent, neighborhood_factor) ==
    IF ~ rent.ok THEN EmptyDict
    ELSE IF IsBad(row.zip_code) \/ IsBad(row.tax) THEN RentMetrics(rent)
    ELSE IF IsBad(row.hoa_fee)
         THEN Update(RentMetrics(rent), [k \in {"tax_used"} |-> TaxUsed(row, list_price)])
    ELSE CashFlowFinanced(list_price, rent, TaxUsed(row, list_price),
                          HoaFeeUsed(row, list_price),
                          calculate_down_payment_pct(list_price, neighborhood_factor),
                          determine_mortgage_terms(list_price, neighborhood_factor))

\* calculate_cash_flow_metrics(row, is_zori_based=True): the metrics dict, which
\* holds only the keys stored before an early return or an exception.
calculate_cash_flow_metrics(row) ==
    IF IsBad(row.list_price) \/ Float0(row.list_price) <= 0 THEN EmptyDict
    ELSE CashFlowWithRent(row, Float0(row.list_price),
                          CashFlowRent(row, Float0(row.list_price)),
                          RowFactor(row))

CashFlowFields ==
    {"monthly_rent", "annual_rent", "tax_used", "hoa_fee_used", "down_payment_pct",
     "interest_rate", "loan_term", "transaction_cost", "cash_equity", "cap_rate",
     "ucf", "cash_yield"} \cup Range(NoiKey) \cup Range(UcfKey)

\* lines 1387-1391: the cells written for the metrics
CashFlowCells(metrics) ==
    [k \in DOMAIN metrics |->
        IF k \in {"monthly_rent", "annual_rent", "cash_equity", "transaction_cost"}
        THEN round_price(metrics[k])
        ELSE Round2Of(k, metrics[k])]

WithCashFlow(row, fieldnames) ==
    WriteRow(Update(row, CashFlowCells(calculate_cash_flow_metrics(row))), fieldnames)

\* one row of process_investment_metrics_for_file
InvestmentMetricsRow(row0) ==
    WithCashFlow(RoundFields(process_row_values(row0),
                             {"list_price", "zori_monthly_rent", "zori_annual_rent"}),
                 DOMAIN row0 \cup CashFlowFields)


----------------------------------------------------------------------------
(* Stage 3: mortgage metrics and investment returns *)

\* Scale of the amortization factors: 10^8.
AmortScale == 10000 * 10000

SquareScaled(h) == MulDivRound(h, h, AmortScale)

\* (base / 10^8) ^ n, scaled by 10^8
RECURSIVE PowScaled(_, _)
PowScaled(base, n) ==
    IF n = 0 THEN AmortScale
    ELSE IF n % 2 = 1
         THEN MulDivRound(SquareScaled(PowScaled(base, n \div 2)), base, AmortScale)
    ELSE SquareScaled(PowScaled(base, n \div 2))

PmtFromFactor(monthly_rate, f, loan_amount) ==
    MulDivRound(loan_amount, MulDivRound(monthly_rate, f, f - AmortScale), AmortScale)

\* npf.pmt(rate, nper, -pv): pv * rate * (1+rate)^nper / ((1+rate)^nper - 1),
\* in cents; rate scaled by 10^8.
pmt(monthly_rate, total_periods, loan_amount) ==
    PmtFromFactor(monthly_rate, PowScaled(AmortScale + monthly_rate, total_periods),
                  loan_amount)

PrincipalPaymentMutSwapped(monthly_payment, interest_payment) ==
    interest_payment - monthly_payment

\* line 1073
PrincipalPayment(monthly_payment, interest_payment) ==
    monthly_payment - interest_payment

\* the inner loop (lines 1071-1075) over the months of one year:
\* <<principal paid, remaining balance>>
RECURSIVE YearOfPayments(_, _, _, _, _)
RECURSIVE PayMonth(_, _, _, _, _, _)
PayMonthMutBalanceKept(remaining_balance, monthly_rate, monthly_payment, principal_paid, months, principal_payment) ==
    YearOfPayments(remaining_balance, monthly_rate, monthly_payment,
                   principal_paid + principal_payment, months - 1)

PayMonth(remaining_balance, monthly_rate, monthly_payment, principal_paid, months, principal_payment) ==
    YearOfPayments(remaining_balance - principal_payment, monthly_rate,
                   monthly_payment, principal_paid + principal_payment, months - 1)

YearOfPayments(remaining_balance, monthly_rate, monthly_payment, principal_paid, months) ==
    IF months = 0 THEN <<principal_paid, remaining_balance>>
    ELSE PayMonth(remaining_balance, monthly_rate, monthly_payment, principal_paid,
                  months,
                  PrincipalPayment(monthly_payment,
                      MulDivRound(remaining_balance, monthly_rate, AmortScale)))

\* the outer loop (lines 1065-1081): <<principal paid per year, balance per year>>
RECURSIVE Schedule(_, _, _, _)
RECURSIVE ScheduleFrom(_, _, _, _)
ScheduleFrom(y, monthly_rate, monthly_payment, years) ==
    <<y>> \o Schedule(y[2], monthly_rate, monthly_payment, years - 1)

Schedule(remaining_balance, monthly_rate, monthly_payment, years) ==
    IF years = 0 THEN <<>>
    ELSE ScheduleFrom(YearOfPayments(remaining_balance, monthly_rate, monthly_payment,
                                     0, 12),
                      monthly_rate, monthly_payment, years)

AccumulatedMutFourYears(lcf) == lcf[1] + lcf[2] + lcf[3] + lcf[4]

\* lines 1096-1102
AccumulatedCashFlow(lcf) == lcf[1] + lcf[2] + lcf[3] + lcf[4] + lcf[5]

\* line 1043
LoanAmount(total_cost, down_payment_pct) ==
    MulDivRound(total_cost, 10000 - down_payment_pct, 10000)

\* lines 1044 and 1053-1059
MortgageHead(loan_amount, monthly_payment) ==
    [k \in {"loan_amount", "monthly_payment", "annual_debt_service"} |->
        CASE k = "loan_amount" -> loan_amount
          [] k = "monthly_payment" -> monthly_payment
          [] OTHER -> monthly_payment * 12]

\* lines 1084-1089
LeveredCashFlows(metrics, annual_debt_service) ==
    [year \in 1..5 |->
        IF UcfKey[year] \in DOMAIN metrics
        THEN metrics[UcfKey[year]] - annual_debt_service ELSE 0]

\* lines 1077-1102
MortgageRest(sched, lcf) ==
    [k \in {"total_principal_paid", "final_loan_balance", "accumulated_cash_flow"}
           \cup Range(PrincipalKey) \cup Range(BalanceKey) \cup Range(LcfKey) |->
        CASE k = "total_principal_paid" ->
                 sched[1][1] + sched[2][1] + sched[3][1] + sched[4][1] + sched[5][1]
          [] k = "final_loan_balance" -> sched[5][2]
          [] k = "accumulated_cash_flow" -> AccumulatedCashFlow(lcf)
          [] k \in Range(PrincipalKey) ->
                 sched[CHOOSE i \in 1..5 : PrincipalKey[i] = k][1]
          [] k \in Range(BalanceKey) ->
                 sched[CHOOSE i \in 1..5 : BalanceKey[i] = k][2]
          [] OTHER -> lcf[CHOOSE i \in 1..5 : LcfKey[i] = k]]

MortgageAmortized(metrics, loan_amount, monthly_rate, monthly_payment) ==
    Update(Update(metrics, MortgageHead(loan_amount, monthly_payment)),
           MortgageRest(Schedule(loan_amount, monthly_rate, monthly_payment, 5),
                        LeveredCashFlows(metrics, monthly_payment * 12)))

\* With a monthly rate or a period count that is not positive the local
\* monthly_payment is never bound and its first use in the loop (line 1073)
\* raises, so the function returns with loan_amount, monthly_payment = 0 and
\* annual_debt_service = 0 only.
MortgageWithLoan(metrics, loan_amount, monthly_rate, total_periods) ==
    IF monthly_rate > 0 /\ total_periods > 0
    THEN MortgageAmortized(metrics, loan_amount, monthly_rate,
                           pmt(monthly_rate, total_periods, loan_amount))
    ELSE Update(metrics, MortgageHead(loan_amount, 0))

\* calculate_mortgage_metrics(row, metrics): metrics extended.
calculate_mortgage_metrics(row, metrics) ==
    IF IsBad(row.list_price) THEN metrics
    ELSE MortgageWithLoan(metrics,
             LoanAmount(Float0(row.list_price) + Get(metrics, "transaction_cost", 0),
                        Get(metrics, "down_payment_pct", 5000)),
             RoundDiv(Get(metrics, "interest_rate", 75000) * 25, 3),
             Get(metrics, "loan_term", 15) * 12)

\* Future value of the cash flows at rate r (x4 percent), cents: it has the sign
\* of the net present value.
RECURSIVE FutureValue(_, _, _)
FutureValue(cash_flows, r, acc) ==
    IF cash_flows = <<>> THEN acc
    ELSE FutureValue(Tail(cash_flows), r,
                     MulDivRound(acc, 1000000 + r, 1000000) + Head(cash_flows))

RECURSIVE Bisect(_, _, _)
Bisect(cash_flows, lo, hi) ==
    IF hi - lo <= 1 THEN lo
    ELSE LET mid == (lo + hi) \div 2
         IN IF FutureValue(cash_flows, mid, 0) >= 0
            THEN Bisect(cash_flows, mid, hi)
            ELSE Bisect(cash_flows, lo, mid)

\* min(35, max(-25, npf.irr(cash_flows) * 100)), x4 percent, for a vector that
\* starts negative and changes sign once: the rate at which the net present
\* value is zero, found to 1/10000 percent.  A root above 35% or below -25%
\* (or no root: nan) gives the bound.
ClampedIrr(cash_flows) ==
    IF FutureValue(cash_flows, 350000, 0) >= 0 THEN 350000
    ELSE IF FutureValue(cash_flows, 0 - 250000, 0) <= 0 THEN 0 - 250000
    ELSE Bisect(cash_flows, 0 - 250000, 350000)

CashOnCashMutNoClamp(lcf_year1, cash_equity) ==
    MulDivRound(lcf_year1, 1000000, cash_equity)

\* lines 1146-1147, x4 percent
CashOnCash(lcf_year1, cash_equity) ==
    Min(250000, Max(0 - 150000, MulDivRound(lcf_year1, 1000000, cash_equity)))

IrrCashFlowsMutNoExit(metrics, cash_equity, exit_value) ==
    IF \A i \in 1..5 : LcfKey[i] \in DOMAIN metrics
    THEN <<0 - cash_equity, metrics.lcf_year1, metrics.lcf_year2,
           metrics.lcf_year3, metrics.lcf_year4, metrics.lcf_year5>>
    ELSE <<0 - cash_equity>>

\* lines 1156-1166
IrrCashFlows(metrics, cash_equity, exit_value) ==
    IF \A i \in 1..5 : LcfKey[i] \in DOMAIN metrics
    THEN <<0 - cash_equity, metrics.lcf_year1, metrics.lcf_year2,
           metrics.lcf_year3, metrics.lcf_year4,
           metrics.lcf_year5 + (exit_value - metrics.final_loan_balance)>>
    ELSE <<0 - cash_equity>>

\* lines 1169-1176; solver_raises: npf.irr raises (the bare except gives 0)
IrrOf(cash_flows, solver_raises) ==
    IF \E i \in 2..Len(cash_flows) : cash_flows[i] > 0
    THEN IF solver_raises THEN 0 ELSE ClampedIrr(cash_flows)
    ELSE 0 - 250000

\* lines 1126-1180
ReturnsDict(metrics, exit_cap_rate, exit_value, equity_at_exit, cash_equity, solver_raises) ==
    [k \in {"exit_cap_rate", "exit_value", "equity_at_exit",
            "cash_on_cash", "irr", "total_return"} |->
        CASE k = "exit_cap_rate" -> exit_cap_rate
          [] k = "exit_value" -> exit_value
          [] k = "equity_at_exit" -> equity_at_exit
          [] k = "cash_on_cash" ->
                IF cash_equity > 0
                THEN CashOnCash(Get(metrics, "lcf_year1", 0), cash_equity)
                ELSE 0
          [] k = "irr" ->
                IF cash_equity > 0
                THEN IrrOf(IrrCashFlows(metrics, cash_equity, exit_value), solver_raises)
                ELSE 0
          [] OTHER ->
                IF cash_equity > 0
                THEN MulDivRound(equity_at_exit, 10000, cash_equity)
                ELSE 0]

ReturnsWithExitValue(metrics, exit_cap_rate, exit_value, solver_raises) ==
    ReturnsDict(metrics, exit_cap_rate, exit_value,
                exit_value - Get(metrics, "final_loan_balance", 0)
                    + Get(metrics, "accumulated_cash_flow", 0),
                Get(metrics, "cash_equity", 0), solver_raises)

\* lines 1129-1134
ReturnsWithExitCap(metrics, exit_cap_rate, solver_raises) ==
    ReturnsWithExitValue(metrics, exit_cap_rate,
        IF exit_cap_rate > 0
        THEN MulDivRound(Get(metrics, "noi_year5", 0), 1000000, exit_cap_rate)
        ELSE 0,
        solver_raises)

\* calculate_investment_returns(row, metrics) when npf.irr raises or not:
\* metrics extended; unchanged when float() of the growth-rate or ZIP cell
\* raises.
InvestmentReturns(row, metrics, solver_raises) ==
    IF row.zori_growth_rate = None \/ IsBad(row.zip_code) THEN metrics
    ELSE Update(metrics,
             ReturnsWithExitCap(metrics,
                 calculate_exit_cap_rate(Get(metrics, "cap_rate", 0),
                                         100 * row.zori_growth_rate,
                                         RowFactor(row)),
                 solver_raises))

\* calculate_investment_returns(row, metrics): npf.irr does not raise on the
\* finite cash flows of the pipeline.
calculate_investment_returns(row, metrics) == InvestmentReturns(row, metrics, FALSE)

FinalFields ==
    {"loan_amount", "monthly_payment", "annual_debt_service", "total_principal_paid",
     "final_loan_balance", "accumulated_cash_flow", "exit_cap_rate", "exit_value",
     "equity_at_exit", "cash_on_cash", "irr", "total_return"}
    \cup Range(PrincipalKey) \cup Range(BalanceKey) \cup Range(LcfKey)

\* the cells the final stage copies into its metrics dict (lines 1450-1472)
FinalInputKeys ==
    {"monthly_rent", "annual_rent", "tax_used", "hoa_fee_used", "down_payment_pct",
     "interest_rate", "loan_term", "transaction_cost", "cash_equity", "cap_rate",
     "ucf", "cash_yield"} \cup Range(NoiKey)

\* lines 1450-1472: the metrics dict read back from the row
ReadMetrics(row, present) ==
    [k \in Range(UcfKey) \cup (FinalInputKeys \cap present) |->
        IF k \in DOMAIN row /\ row[k] # None /\ row[k] # Bad
        THEN FloatOf(k, row[k]) ELSE 0]

\* lines 1481-1487: the cells written for the metrics
FinalCells(metrics) ==
    [k \in DOMAIN metrics |->
        IF k \in {"loan_amount", "monthly_payment", "annual_debt_service",
                  "exit_value", "equity_at_exit"}
        THEN round_price(metrics[k])
        ELSE Round2Of(k, metrics[k])]

FinalMetricsOf(row, metrics) ==
    FinalCells(calculate_investment_returns(row, calculate_mortgage_metrics(row, metrics)))

WithFinal(row, present, fieldnames) ==
    WriteRow(Update(row, FinalMetricsOf(row, ReadMetrics(row, present))), fieldnames)

\* one row of process_final_metrics_for_file
FinalMetricsRow(row0) ==
    WithFinal(RoundFields(process_row_values(row0),
                          {"list_price", "monthly_rent", "annual_rent",
                           "cash_equity", "transaction_cost"}),
              DOMAIN row0, DOMAIN row0 \cup FinalFields)


----------------------------------------------------------------------------
(* Stage 4: ranking and outlier filter *)

\* float(row.get(k, 0) or 0) of a cell, in the x4 scale for a rate cell
Cell4(row, k) == IF k \in DOMAIN row THEN 100 * Float0(row[k]) ELSE 0
CellMoney(row, k) == IF k \in DOMAIN row THEN Float0(row[k]) ELSE 0
CellBad(row, k) == k \in DOMAIN row /\ IsBad(row[k])

Clamp(lo, hi, v) == Min(hi, Max(lo, v))

\* The nine sub-scores of calculate_property_ranking (lines 705-789), x4 points.
CapRateScore(cap_rate) ==
    IF cap_rate < 30000 THEN 20000 + RoundDiv(cap_rate * 2, 3)
    ELSE IF cap_rate < 50000 THEN 40000 + (cap_rate - 30000)
    ELSE IF cap_rate < 70000 THEN 60000 + (cap_rate - 50000)
    ELSE 80000 + Min(20000, RoundDiv(cap_rate - 70000, 3))

CocScore(cash_on_cash) ==
    IF cash_on_cash < 0 THEN 10000 + RoundDiv((cash_on_cash + 150000) * 2, 15)
    ELSE IF cash_on_cash < 30000 THEN 30000 + RoundDiv(cash_on_cash * 2, 3)
    ELSE IF cash_on_cash < 60000 THEN 50000 + RoundDiv((cash_on_cash - 30000) * 2, 3)
    ELSE IF cash_on_cash < 90000 THEN 70000 + RoundDiv((cash_on_cash - 60000) * 2, 3)
    ELSE 90000 + Min(10000, RoundDiv(cash_on_cash - 90000, 3))

IrrScore(irr) ==
    IF irr < 0 THEN 10000 + RoundDiv((irr + 250000) * 2, 25)
    ELSE IF irr < 50000 THEN 30000 + RoundDiv(irr * 2, 5)
    ELSE IF irr < 100000 THEN 50000 + RoundDiv((irr - 50000) * 2, 5)
    ELSE IF irr < 150000 THEN 70000 + RoundDiv((irr - 100000) * 2, 5)
    ELSE 90000 + Min(10000, RoundDiv(irr - 150000, 10))

GrmScore(grm) ==
    IF grm > 350000 THEN 10000 + Min(20000, RoundDiv(600000 - grm, 25))
    ELSE IF grm > 250000 THEN 30000 + RoundDiv(350000 - grm, 5)
    ELSE IF grm > 200000 THEN 50000 + RoundDiv((250000 - grm) * 2, 5)
    ELSE IF grm > 150000 THEN 70000 + RoundDiv((200000 - grm) * 2, 5)
    ELSE 90000 + Min(10000, RoundDiv(150000 - grm, 10))

LeverageRiskScore(down_payment_pct, interest_rate) ==
    Clamp(10000, 100000,
          50000 + (down_payment_pct - 4000) * 20 + RoundDiv((80000 - interest_rate) * 3, 10))

LocationScore(neighborhood_factor) ==
    Clamp(10000, 100000, (neighborhood_factor - 75) * 4000 + 10000)

GrowthScore(growth_rate) ==
    Clamp(10000, 100000, 50000 + RoundDiv((growth_rate - 30000) * 7, 10))

EquityScore(total_principal_paid, list_price) ==
    IF list_price > 0
    THEN Clamp(10000, 100000,
               10000 + RoundDiv(MulDivRound(total_principal_paid, 1000000, list_price), 2))
    ELSE 50000

ReturnScore(total_return) ==
    IF total_return <= 10000 THEN 10000 + total_return * 3
    ELSE IF total_return <= 15000 THEN 40000 + (total_return - 10000) * 4
    ELSE IF total_return <= 20000 THEN 60000 + (total_return - 15000) * 4
    ELSE 80000 + Min(20000, total_return - 20000)

\* lines 690-789: the nine sub-scores of the row, x4 points
SubScores(row) ==
    [cap_rate |-> CapRateScore(Cell4(row, "cap_rate")),
     cash_on_cash |-> CocScore(Cell4(row, "cash_on_cash")),
     irr |-> IrrScore(Cell4(row, "irr")),
     grm |-> GrmScore(Cell4(row, "gross_rent_multiplier")),
     leverage_risk |-> LeverageRiskScore(Cell4(row, "down_payment_pct"),
                                         Cell4(row, "interest_rate")),
     location |-> LocationScore(RowFactor(row)),
     growth |-> GrowthScore(Cell4(row, "zori_growth_rate")),
     equity |-> EquityScore(CellMoney(row, "total_principal_paid"),
                            CellMoney(row, "list_price")),
     total_return |-> ReturnScore(Cell4(row, "total_return"))]

\* lines 792-796: the weighted sum, x4 points
WeightedTotal(s) ==
    RoundDiv(s.cap_rate * 10 + s.cash_on_cash * 15 + s.irr * 15
             + s.grm * 10 + s.leverage_risk * 10 + s.location * 10
             + s.growth * 10 + s.equity * 10 + s.total_return * 10, 100)

TotalScoreMutNoClamp(weighted) == weighted

\* line 799
TotalScore(weighted) == Clamp(10000, 100000, weighted)

\* lines 802-805: <<round(total_score, 1) in 1/100 points, ranking>>
ScoreAndRanking(tenths) == <<10 * tenths, Clamp(1, 10, RoundDiv(tenths, 10))>>

\* float() of a cell read at lines 690-700 raises
RankingRaises(row) ==
    \E k \in {"cap_rate", "cash_on_cash", "irr", "gross_rent_multiplier",
              "down_payment_pct", "interest_rate", "zori_growth_rate",
              "total_principal_paid", "list_price", "total_return",
              "zip_code"} : CellBad(row, k)

\* calculate_property_ranking(row): <<score in 1/100 points (a multiple of 10:
\* round(total, 1)), integer ranking>>; <<500, 5>> when a cell is not numeric.
calculate_property_ranking(row) ==
    IF RankingRaises(row) THEN <<500, 5>>
    ELSE ScoreAndRanking(RoundDiv(TotalScore(WeightedTotal(SubScores(row))), 1000))

GrmInRangeMutNoFloor(grm) == ~ (grm > 6000)

\* line 1538, grm in 1/100
GrmInRange(grm) == ~ (grm <= 500 \/ grm > 6000)

PassesFilterMutNoUcfFloor(row) ==
    /\ ~ \E k \in {"cap_rate", "irr", "cash_on_cash", "gross_rent_multiplier",
                    "lcf_year1", "ucf_year1", "list_price", "annual_rent"} :
              CellBad(row, k)
    /\ ~ (Abs(CellMoney(row, "cap_rate")) > 1500 \/ Abs(CellMoney(row, "irr")) > 3500
          \/ Abs(CellMoney(row, "cash_on_cash")) > 2500)
    /\ GrmInRange(CellMoney(row, "gross_rent_multiplier"))
    /\ ~ (CellMoney(row, "lcf_year1") < 0 - 5000000)
    /\ ~ (CellMoney(row, "annual_rent") > 0
          /\ ((CellMoney(row, "list_price") - 1) \div 60 >= CellMoney(row, "annual_rent")
              \/ CellMoney(row, "list_price") \div 5 < CellMoney(row, "annual_rent")))

\* The row passes the checks of lines 1528-1555 (a cell float() rejects skips
\* the row, lines 1565-1568).
PassesFilter(row) ==
    LET cap_rate == CellMoney(row, "cap_rate")      \* rate cells here in 1/100
        irr == CellMoney(row, "irr")
        cash_on_cash == CellMoney(row, "cash_on_cash")
        grm == CellMoney(row, "gross_rent_multiplier")
        lcf_year1 == CellMoney(row, "lcf_year1")
        ucf_year1 == CellMoney(row, "ucf_year1")
        list_price == CellMoney(row, "list_price")
        annual_rent == CellMoney(row, "annual_rent")
    IN /\ ~ \E k \in {"cap_rate", "irr", "cash_on_cash", "gross_rent_multiplier",
                      "lcf_year1", "ucf_year1", "list_price", "annual_rent"} :
                CellBad(row, k)
       /\ ~ (Abs(cap_rate) > 1500 \/ Abs(irr) > 3500 \/ Abs(cash_on_cash) > 2500)
       /\ GrmInRange(grm)
       /\ ~ (lcf_year1 < 0 - 5000000 \/ ucf_year1 < 0 - 3000000)
       /\ ~ (annual_rent > 0
             /\ ((list_price - 1) \div 60 >= annual_rent
                 \/ list_price \div 5 < annual_rent))

\* the row filter_investment_outliers writes for a row that passes
RankedRow(row0) ==
    LET row == process_row_values(row0)
        rk == calculate_property_ranking(row)
    IN Update(row, [k \in {"investment_score", "investment_ranking"} |->
                       IF k = "investment_score" THEN rk[1] ELSE rk[2]])

\* filter_investment_outliers over a file
RECURSIVE FilterRows(_)
FilterRows(rows) ==
    IF rows = <<>> THEN <<>>
    ELSE (IF PassesFilter(process_row_values(Head(rows)))
          THEN <<RankedRow(Head(rows))>> ELSE <<>>) \o FilterRows(Tail(rows))

RECURSIVE MapRows(_, _)
MapRows(Op(_), rows) ==
    IF rows = <<>> THEN <<>> ELSE <<Op(Head(rows))>> \o MapRows(Op, Tail(rows))


----------------------------------------------------------------------------
(* Whole files *)

\* one row of merge_csv_files (lines 1322-1333)
MergeRow(row) ==
    RoundFields(process_row_values(row),
                {"list_price", "zori_monthly_rent", "zori_annual_rent"})

RECURSIVE Concat(_)
Concat(files) == IF files = <<>> THEN <<>> ELSE Head(files) \o Concat(Tail(files))

MergeMutCompletionOrder(input_files) ==
    MapRows(MergeRow, Concat([i \in 1..Len(doneOrder) |-> input_files[doneOrder[i]]]))

\* merge_csv_files(input_files, output_file): the rows of output_file
merge_csv_files(input_files) == MapRows(MergeRow, Concat(input_files))

\* process_rental_estimates_for_file: the rows of the output for the rows read
process_rental_estimates_for_file(rows, index, clock) ==
    MapRows(LAMBDA r : RentalEstimateRow(r, index, clock), rows)

process_investment_metrics_for_file(rows) == MapRows(InvestmentMetricsRow, rows)

process_final_metrics_for_file(rows) == MapRows(FinalMetricsRow, rows)

filter_investment_outliers(rows) == FilterRows(rows)

\* final.csv of a run of main() over the files at the date clock
RunAt(files, indexFile, clock) ==
    LET index == load_zori_data(indexFile.rows, indexFile.seasonality)
        temps == [i \in 1..Len(files) |->
                    process_rental_estimates_for_file(files[i], index, clock)]
    IN filter_investment_outliers(
           process_final_metrics_for_file(
               process_investment_metrics_for_file(merge_csv_files(temps))))


----------------------------------------------------------------------------
(* Inputs of a run *)

NumPartitions == 3
RowsPerFile == 2
NumInputSets == 4

Pick(seq, n) == seq[(n % Len(seq)) + 1]

\* list prices, in cents
CatalogPrices ==
    <<30000000, 50000000, 15000000, 80000000, 49999900, 120000000, 75000000>>

\* <<zip_code, state>>; 10026 is not in the rent index
CatalogPlaces ==
    <<<<10013, "NY">>, <<10025, "NY">>, <<10034, "NY">>, <<90011, "CA">>,
      <<10026, "NY">>>>

\* <<beds, full_baths, half_baths, sqft, year_built, style>>
CatalogLayouts ==
    <<<<2, 1, 0, 900, 1990, "Condo">>,
      <<3, 2, 1, 1600, 2018, "Single Family">>,
      <<4, 2, 0, 2400, 1930, "Multi Family">>>>

\* <<tax (cents a year), hoa_fee (cents a month), PTR (1/10000)>>
CatalogCosts ==
    <<<<None, None, None>>, <<600000, 40000, 80>>, <<None, 150000, None>>,
      <<300000, None, 60>>>>

\* the n-th property of the catalogue: one row of an input file
Property(n) ==
    LET place == Pick(CatalogPlaces, n)
        layout == Pick(CatalogLayouts, n)
        costs == Pick(CatalogCosts, n)
    IN [property_id |-> n, list_price |-> Pick(CatalogPrices, n),
        zip_code |-> place[1], state |-> place[2],
        beds |-> layout[1], full_baths |-> layout[2], half_baths |-> layout[3],
        sqft |-> layout[4], year_built |-> layout[5], style |-> layout[6],
        tax |-> costs[1], hoa_fee |-> costs[2], PTR |-> costs[3],
        text |-> n % 3, parking_garage |-> IF n % 2 = 0 THEN 1 ELSE None,
        price_per_sqft |-> None]

\* the property files of input set v: NumPartitions files of RowsPerFile rows
InputSet(v) ==
    [i \in 1..NumPartitions |->
        [j \in 1..RowsPerFile |->
            Property((v * NumPartitions + (i - 1)) * RowsPerFile + j)]]

\* cells a listing file can hold in place of a number: text, nothing, zero
Defects ==
    <<<<"list_price", Bad>>, <<"beds", Bad>>, <<"tax", Bad>>, <<"zip_code", None>>,
      <<"list_price", 0>>, <<"hoa_fee", Bad>>, <<"zip_code", Bad>>>>

\* property files in which the n-th row has the n-th defect
DefectiveSet ==
    [i \in 1..NumPartitions |->
        [j \in 1..RowsPerFile |->
            [Property((i - 1) * RowsPerFile + j)
                EXCEPT ![Pick(Defects, (i - 1) * RowsPerFile + j - 1)[1]] =
                           Pick(Defects, (i - 1) * RowsPerFile + j - 1)[2]]]]

\* a line with one cell more than the header: csv.DictReader stores the
\* surplus under the key None, modelled as the column "restkey"
WithSurplusCell(row) ==
    [k \in DOMAIN row \cup {"restkey"} |-> IF k = "restkey" THEN 1 ELSE row[k]]

\* the last line of the second file has a surplus cell
SurplusCellSet ==
    [InputSet(0) EXCEPT ![2][RowsPerFile] = WithSurplusCell(InputSet(0)[2][RowsPerFile])]

InputSets ==
    {InputSet(v) : v \in 0..(NumInputSets - 1)}
    \cup {[InputSet(0) EXCEPT ![NumPartitions] = Missing]}
    \cup {DefectiveSet, SurplusCellSet}

\* the rent index file: latest rent in cents, five-year CAGR in 1/100 percent
IndexRows ==
    <<[zip |-> 10013, state |-> "NY", rent |-> 450000, cagr |-> 400],
      [zip |-> 10025, state |-> "NY", rent |-> 380000, cagr |-> 350],
      [zip |-> 10034, state |-> "NY", rent |-> 250000, cagr |-> 150],
      [zip |-> 90011, state |-> "CA", rent |-> 200000, cagr |-> 700],
      [zip |-> 73301, state |-> "TX", rent |-> None, cagr |-> 0]>>

Seasonality ==
    [m \in 1..12 |-> IF m \in {6, 7, 8} THEN 50
                     ELSE IF m \in {12, 1, 2} THEN 0 - 40 ELSE 0]

IndexFiles ==
    {[rows |-> IndexRows, seasonality |-> Seasonality],
     [rows |-> <<IndexRows[5]>>, seasonality |-> [m \in 1..12 |-> 0]],
     [rows |-> Missing, seasonality |-> <<>>]}

Clocks ==
    {[year |-> 2025, month |-> 2], [year |-> 2025, month |-> 7],
     [year |-> 2031, month |-> 2]}

NotLoaded == [entries |-> <<>>, avg_seasonality |-> <<>>, state_averages |-> <<>>]

----------------------------------------------------------------------------
(* main(): the run as a state machine *)

Partitions == 1..Len(inputFiles)
Running == {i \in Partitions : task[i] = "running"}
Finished == {i \in Partitions : task[i] \in {"done", "failed"}}

InitRun ==
    /\ pc = "start"
    /\ zori = NotLoaded
    /\ task = [i \in Partitions |-> "queued"]
    /\ cursor = [i \in Partitions |-> 0]
    /\ tempZori = [i \in Partitions |-> Missing]
    /\ doneOrder = <<>>
    /\ mergedZori = Missing
    /\ mergedCashFlow = Missing
    /\ tempFinal = Missing
    /\ finalOut = Missing
    /\ exitCode = None
    /\ call = None

Init ==
    /\ now \in Clocks
    /\ zoriFile \in IndexFiles
    /\ inputFiles \in InputSets
    /\ InitRun

\* process_rental_estimates: load_zori_data() (line 1582)
LoadZori ==
    /\ pc = "start"
    /\ zoriFile.rows # Missing
    /\ zori' = load_zori_data(zoriFile.rows, zoriFile.seasonality)
    /\ pc' = "estimating"
    /\ UNCHANGED <<now, zoriFile, inputFiles, task, cursor, tempZori, doneOrder,
                   mergedZori, mergedCashFlow, tempFinal, finalOut, exitCode, call>>

\* open() of the index file raises: main's except clause exits with status 1
LoadZoriFails ==
    /\ pc = "start"
    /\ zoriFile.rows = Missing
    /\ pc' = "failed"
    /\ exitCode' = 1
    /\ UNCHANGED <<now, zoriFile, zori, inputFiles, task, cursor, tempZori,
                   doneOrder, mergedZori, mergedCashFlow, tempFinal, finalOut, call>>

\* a pool worker takes a submitted task and opens its files (lines 1219-1238)
WorkerStart(i) ==
    /\ pc = "estimating"
    /\ task[i] = "queued"
    /\ Cardinality(Running) < Min(MAX_WORKERS, Len(inputFiles))
    /\ inputFiles[i] # Missing
    /\ task' = [task EXCEPT ![i] = "running"]
    /\ tempZori' = [tempZori EXCEPT ![i] = <<>>]
    /\ UNCHANGED <<now, zoriFile, zori, inputFiles, pc, cursor, doneOrder,
                   mergedZori, mergedCashFlow, tempFinal, finalOut, exitCode, call>>

\* the input file cannot be opened: the future completes with the exception
WorkerOpenFails(i) ==
    /\ pc = "estimating"
    /\ task[i] = "queued"
    /\ Cardinality(Running) < Min(MAX_WORKERS, Len(inputFiles))
    /\ inputFiles[i] = Missing
    /\ task' = [task EXCEPT ![i] = "failed"]
    /\ doneOrder' = Append(doneOrder, i)
    /\ UNCHANGED <<now, zoriFile, zori, inputFiles, pc, cursor, tempZori,
                   mergedZori, mergedCashFlow, tempFinal, finalOut, exitCode, call>>

\* csv.DictWriter.writerow raises ValueError for a row with a key that is
\* not in fieldnames
WriterRejects(row) == "restkey" \in DOMAIN row

\* one iteration of the row loop (lines 1241-1288)
WorkerRow(i) ==
    /\ pc = "estimating"
    /\ task[i] = "running"
    /\ cursor[i] < Len(inputFiles[i])
    /\ ~ WriterRejects(inputFiles[i][cursor[i] + 1])
    /\ cursor' = [cursor EXCEPT ![i] = @ + 1]
    /\ tempZori' = [tempZori EXCEPT ![i] =
                       Append(@, RentalEstimateRow(inputFiles[i][cursor[i] + 1],
                                                   zori, now))]
    /\ UNCHANGED <<now, zoriFile, zori, inputFiles, pc, task, doneOrder,
                   mergedZori, mergedCashFlow, tempFinal, finalOut, exitCode, call>>

\* writer.writerow (line 1287) raises inside the row loop: the worker ends
\* with the rows written so far in its file and the future completes with
\* the exception
WorkerRowFails(i) ==
    /\ pc = "estimating"
    /\ task[i] = "running"
    /\ cursor[i] < Len(inputFiles[i])
    /\ WriterRejects(inputFiles[i][cursor[i] + 1])
    /\ task' = [task EXCEPT ![i] = "failed"]
    /\ doneOrder' = Append(doneOrder, i)
    /\ UNCHANGED <<now, zoriFile, zori, inputFiles, pc, cursor, tempZori,
                   mergedZori, mergedCashFlow, tempFinal, finalOut, exitCode, call>>

\* the row loop ends: the future completes
WorkerFinish(i) ==
    /\ pc = "estimating"
    /\ task[i] = "running"
    /\ cursor[i] = Len(inputFiles[i])
    /\ task' = [task EXCEPT ![i] = "done"]
    /\ doneOrder' = Append(doneOrder, i)
    /\ UNCHANGED <<now, zoriFile, zori, inputFiles, pc, cursor, tempZori,
                   mergedZori, mergedCashFlow, tempFinal, finalOut, exitCode, call>>

MergeZoriMutIgnoresFailure ==
    /\ pc = "estimating"
    /\ \A i \in Partitions : task[i] \in {"done", "failed"} /\ tempZori[i] # Missing
    /\ mergedZori' = merge_csv_files(tempZori)
    /\ pc' = "merged"
    /\ UNCHANGED <<now, zoriFile, zori, inputFiles, task, cursor, tempZori,
                   doneOrder, mergedCashFlow, tempFinal, finalOut, exitCode, call>>

\* every future has a result: merge the temporary files (line 1608)
MergeZori ==
    /\ pc = "estimating"
    /\ \A i \in Partitions : task[i] = "done"
    /\ mergedZori' = merge_csv_files(tempZori)
    /\ pc' = "merged"
    /\ UNCHANGED <<now, zoriFile, zori, inputFiles, task, cursor, tempZori,
                   doneOrder, mergedCashFlow, tempFinal, finalOut, exitCode, call>>

\* future.result() re-raises a worker's exception (line 1605) once the pool
\* has shut down: main's except clause exits with status 1
EstimationFails ==
    /\ pc = "estimating"
    /\ Finished = Partitions
    /\ \E i \in Partitions : task[i] = "failed"
    /\ pc' = "failed"
    /\ exitCode' = 1
    /\ UNCHANGED <<now, zoriFile, zori, inputFiles, task, cursor, tempZori,
                   doneOrder, mergedZori, mergedCashFlow, tempFinal, finalOut, call>>

\* process_investment_metrics() (line 1663)
InvestmentMetrics ==
    /\ pc = "merged"
    /\ mergedCashFlow' = process_investment_metrics_for_file(mergedZori)
    /\ doneOrder' = <<>>
    /\ pc' = "cashflow"
    /\ UNCHANGED <<now, zoriFile, zori, inputFiles, task, cursor, tempZori,
                   mergedZori, tempFinal, finalOut, exitCode, call>>

\* process_final_metrics_for_file(TEMP_MERGED_CASH_FLOW, temp_final_file) (line 1667)
FinalMetrics ==
    /\ pc = "cashflow"
    /\ tempFinal' = process_final_metrics_for_file(mergedCashFlow)
    /\ pc' = "returns"
    /\ UNCHANGED <<now, zoriFile, zori, inputFiles, task, cursor, tempZori,
                   doneOrder, mergedZori, mergedCashFlow, finalOut, exitCode, call>>

\* filter_investment_outliers(temp_final_file, OUTPUT_FINAL_FILE) (line 1670)
FilterOutliers ==
    /\ pc = "returns"
    /\ finalOut' = filter_investment_outliers(tempFinal)
    /\ pc' = "filtered"
    /\ UNCHANGED <<now, zoriFile, zori, inputFiles, task, cursor, tempZori,
                   doneOrder, mergedZori, mergedCashFlow, tempFinal, exitCode, call>>

\* lines 1673-1675: the temporary files are removed; main returns
CleanUp ==
    /\ pc = "filtered"
    /\ tempFinal' = Missing
    /\ tempZori' = [i \in Partitions |-> Missing]
    /\ mergedZori' = Missing
    /\ mergedCashFlow' = Missing
    /\ pc' = "done"
    /\ exitCode' = 0
    /\ UNCHANGED <<now, zoriFile, zori, inputFiles, task, cursor, doneOrder,
                   finalOut, call>>

Next ==
    \/ LoadZori
    \/ LoadZoriFails
    \/ \E i \in Partitions : WorkerStart(i)
    \/ \E i \in Partitions : WorkerOpenFails(i)
    \/ \E i \in Partitions : WorkerRow(i)
    \/ \E i \in Partitions : WorkerRowFails(i)
    \/ \E i \in Partitions : WorkerFinish(i)
    \/ MergeZori
    \/ EstimationFails
    \/ InvestmentMetrics
    \/ FinalMetrics
    \/ FilterOutliers
    \/ CleanUp

Spec == Init /\ [][Next]_vars


----------------------------------------------------------------------------
(* The standalone filter, src/filter.py: dollar cells in cents, rate cells and
   the gross rent multiplier in 1/100 *)

ESSENTIAL_FIELDS ==
    <<"list_price", "beds", "full_baths", "sqft", "zori_monthly_rent", "annual_rent",
      "cap_rate", "cash_on_cash", "irr", "total_return">>

METRIC_RANGES ==
    [metric \in {"cap_rate", "cash_on_cash", "irr", "gross_rent_multiplier"} |->
        CASE metric = "cap_rate" -> [min |-> 100, max |-> 1500]
          [] metric = "cash_on_cash" -> [min |-> 0 - 1000, max |-> 2000]
          [] metric = "irr" -> [min |-> 0 - 1000, max |-> 3500]
          [] OTHER -> [min |-> 600, max |-> 3000]]

\* lines 33-43: the field is a column, its cell is not empty, is a number
\* and is not zero
EssentialFieldOk(row, field) ==
    /\ field \in DOMAIN row
    /\ row[field] # None
    /\ row[field] # Bad
    /\ row[field] # 0

\* lines 46-53: a metric with a cell that is not empty must be a number
\* inside its range
MetricInRange(row, metric) ==
    (metric \in DOMAIN row /\ row[metric] # None) =>
        /\ row[metric] # Bad
        /\ METRIC_RANGES[metric].min <= row[metric]
        /\ row[metric] <= METRIC_RANGES[metric].max

\* lines 56-64: list_price / sqft in [50, 2000] dollars, checked for sqft > 0
PricePerSqftOk(row) ==
    row.sqft > 0 => (5000 * row.sqft <= row.list_price
                     /\ row.list_price <= 200000 * row.sqft)

\* lines 67-73: float(row.get('annual_debt_service', 0) or 0) against 1.5
\* times the annual rent; a cell that is not a number skips the check
DebtServiceOk(row) ==
    LET cell == Get(row, "annual_debt_service", None)
    IN IsBad(cell) \/ ~ (2 * Float0(cell) > 3 * row.annual_rent)

is_valid_property(row) ==
    IF \E i \in 1..Len(ESSENTIAL_FIELDS) : ~ EssentialFieldOk(row, ESSENTIAL_FIELDS[i])
    THEN FALSE
    ELSE /\ \A metric \in DOMAIN METRIC_RANGES : MetricInRange(row, metric)
         /\ PricePerSqftOk(row)
         /\ DebtServiceOk(row)

\* lines 88-102 of main: the rows in file order, each valid row written;
\* writer.writerow raises ValueError for a row with a surplus cell and the
\* run ends with the rows written so far
RECURSIVE FilterMainRows(_, _)
FilterMainRows(rows, written) ==
    IF rows = <<>> THEN [status |-> "done", written |-> written]
    ELSE IF ~ is_valid_property(Head(rows)) THEN FilterMainRows(Tail(rows), written)
    ELSE IF WriterRejects(Head(rows)) THEN [status |-> "ValueError", written |-> written]
    ELSE FilterMainRows(Tail(rows), Append(written, Head(rows)))

FilterMain(rows) == FilterMainRows(rows, <<>>)

----------------------------------------------------------------------------
(* Direct calls of the financing and estimation functions *)

NoCall == [op |-> "none"]

\* list prices (cents) around every tier boundary of lines 585-594, 609-618
\* and 628-633
CallPrices ==
    {0, 19999900, 20000000, 24999900, 25000000, 49999900, 50000000, 74999900,
     75000000, 99999900, 100000000, 250000000}

\* neighborhood factors in 1/100, also outside [0.75, 0.95]
CallFactors == {0 - 50, 0, 75, 80, 87, 90, 95, 150, 300}

\* the financing cells calculate_mortgage_metrics reads: down payment (x4
\* fraction), interest rate (x4 percent), term (years)
CallDownPayments == {3000, 4425, 6000}
CallRates == {0, 30000, 60000, 73500, 90000, 120000}
CallTerms == {0, 15, 20, 25}
CallLoanPrices == {15000000, 50000000, 120000000}

CallMetrics(list_price, down_payment_pct, interest_rate, loan_term) ==
    [k \in {"transaction_cost", "down_payment_pct", "interest_rate", "loan_term",
            "cash_equity"} \cup Range(UcfKey) |->
        CASE k = "transaction_cost" -> list_price \div 100
          [] k = "down_payment_pct" -> down_payment_pct
          [] k = "interest_rate" -> interest_rate
          [] k = "loan_term" -> loan_term
          [] k = "cash_equity" ->
                CashEquity(list_price, list_price \div 100, down_payment_pct)
          [] OTHER -> list_price \div 20]

\* rows, rent dicts and state averages estimate_rental_income is called with
CallPlaces ==
    {<<10025, "NY">>, <<10026, "NY">>, <<10030, "NY">>, <<90011, "CA">>,
     <<60601, "IL">>, <<None, "NY">>}

CallRow(place) ==
    [Property(1) EXCEPT !.zip_code = place[1], !.state = place[2]]

\* the numeric inputs of estimate_rental_income (lines 824, 842-847)
EstimateInputs == {"zip_code", "beds", "full_baths", "half_baths", "sqft", "year_built"}

\* one cell of the row replaced: an empty cell, text, or 0; the first pair
\* leaves the row as it is
EstimateDefects ==
    {<<"property_id", 1>>} \cup (EstimateInputs \X {None, Bad, 0})

DefectiveCallRow(place, defect) ==
    IF defect[1] = "zip_code" /\ place[1] # 10025 THEN CallRow(place)
    ELSE [CallRow(place) EXCEPT ![defect[1]] = defect[2]]

\* an index entry under a key that is not an integer
TextKeyEntry == [zip |-> Bad, state |-> "NY", rent |-> 300000, cagr |-> 300]

CallEntries ==
    {<<>>, StoredRows(IndexRows), <<IndexRows[2], IndexRows[3]>>, <<IndexRows[4]>>,
     <<TextKeyEntry>>, <<TextKeyEntry, IndexRows[3], IndexRows[2]>>}

CallStateAverages ==
    {EmptyDict, [st \in {"NY"} |-> 310000],
     [st \in {"NY", "CA"} |-> IF st = "NY" THEN 310000 ELSE 200000]}

CallClock == [year |-> 2025, month |-> 2]

InitCalls ==
    /\ now = CallClock
    /\ zoriFile = [rows |-> IndexRows, seasonality |-> Seasonality]
    /\ inputFiles = InputSet(0)
    /\ pc = "calls"
    /\ zori = NotLoaded
    /\ task = [i \in Partitions |-> "queued"]
    /\ cursor = [i \in Partitions |-> 0]
    /\ tempZori = [i \in Partitions |-> Missing]
    /\ doneOrder = <<>>
    /\ mergedZori = Missing
    /\ mergedCashFlow = Missing
    /\ tempFinal = Missing
    /\ finalOut = Missing
    /\ exitCode = None
    /\ call = NoCall

CallDownPayment ==
    /\ call = NoCall
    /\ \E list_price \in CallPrices, neighborhood_factor \in CallFactors :
          call' = [op |-> "calculate_down_payment_pct", list_price |-> list_price,
                   neighborhood_factor |-> neighborhood_factor,
                   result |-> calculate_down_payment_pct(list_price,
                                                         neighborhood_factor)]
    /\ UNCHANGED pipelineVars

CallMortgageTerms ==
    /\ call = NoCall
    /\ \E list_price \in CallPrices, neighborhood_factor \in CallFactors :
          call' = [op |-> "determine_mortgage_terms", list_price |-> list_price,
                   neighborhood_factor |-> neighborhood_factor,
                   result |-> determine_mortgage_terms(list_price,
                                                       neighborhood_factor)]
    /\ UNCHANGED pipelineVars

CallMortgageMetrics ==
    /\ call = NoCall
    /\ \E list_price \in CallLoanPrices, down_payment_pct \in CallDownPayments,
          interest_rate \in CallRates, loan_term \in CallTerms :
          call' = [op |-> "calculate_mortgage_metrics", list_price |-> list_price,
                   interest_rate |-> interest_rate, loan_term |-> loan_term,
                   result |-> calculate_mortgage_metrics(
                                  [Property(1) EXCEPT !.list_price = list_price],
                                  CallMetrics(list_price, down_payment_pct,
                                              interest_rate, loan_term))]
    /\ UNCHANGED pipelineVars

CallEstimate ==
    /\ call = NoCall
    /\ \E place \in CallPlaces, entries \in CallEntries,
          state_averages \in CallStateAverages, defect \in EstimateDefects :
          call' = [op |-> "estimate_rental_income",
                   row |-> DefectiveCallRow(place, defect),
                   entries |-> entries, state_averages |-> state_averages,
                   clock |-> now,
                   result |-> estimate_rental_income(
                                  DefectiveCallRow(place, defect),
                                  [entries |-> entries,
                                   avg_seasonality |-> Seasonality,
                                   state_averages |-> state_averages],
                                  now)]
    /\ UNCHANGED pipelineVars

\* A row of final.csv.temp: the first catalogue property after the three
\* stages, against the full index.
FilterBaseRow ==
    FinalMetricsRow(InvestmentMetricsRow(MergeRow(
        RentalEstimateRow(Property(1), load_zori_data(IndexRows, Seasonality),
                          CallClock))))

\* <<column, cell>>: one cell of FilterBaseRow replaced, at and next to every
\* threshold of lines 1535-1553 (rate cells in 1/100, money in cents), empty
\* and not numeric.
FilterVariants ==
    <<<<"property_id", 1>>,
      <<"cap_rate", 0 - 1501>>, <<"cap_rate", 0 - 1500>>, <<"cap_rate", 1500>>,
      <<"cap_rate", 1501>>, <<"cap_rate", None>>, <<"cap_rate", Bad>>,
      <<"irr", 0 - 3501>>, <<"irr", 0 - 3500>>, <<"irr", 3500>>, <<"irr", 3501>>,
      <<"irr", Bad>>,
      <<"cash_on_cash", 0 - 2501>>, <<"cash_on_cash", 0 - 2500>>,
      <<"cash_on_cash", 2500>>, <<"cash_on_cash", 2501>>, <<"cash_on_cash", Bad>>,
      <<"gross_rent_multiplier", 500>>, <<"gross_rent_multiplier", 501>>,
      <<"gross_rent_multiplier", 6000>>, <<"gross_rent_multiplier", 6001>>,
      <<"gross_rent_multiplier", None>>, <<"gross_rent_multiplier", Bad>>,
      <<"lcf_year1", 0 - 5000100>>, <<"lcf_year1", 0 - 5000000>>,
      <<"lcf_year1", 0 - 5000040>>, <<"lcf_year1", 0 - 5000060>>,
      <<"lcf_year1", None>>, <<"lcf_year1", Bad>>,
      <<"ucf_year1", 0 - 3000100>>, <<"ucf_year1", 0 - 3000000>>,
      <<"ucf_year1", 0 - 3000040>>, <<"ucf_year1", Bad>>,
      <<"annual_rent", 0>>, <<"annual_rent", None>>, <<"annual_rent", Bad>>,
      <<"annual_rent", 833300>>, <<"annual_rent", 833400>>,
      <<"annual_rent", 10000000>>, <<"annual_rent", 10000100>>,
      <<"list_price", None>>, <<"list_price", Bad>>,
      <<"down_payment_pct", Bad>>, <<"total_return", None>>>>

FilterVariant(n, id) ==
    [[FilterBaseRow EXCEPT ![FilterVariants[n][1]] = FilterVariants[n][2]]
        EXCEPT !.property_id = id]

CallFilter ==
    /\ call = NoCall
    /\ \E a \in 1..Len(FilterVariants), b \in {1, 2, 7} :
          call' = [op |-> "filter_investment_outliers",
                   rows |-> <<FilterVariant(a, 1), FilterVariant(b, 2)>>,
                   result |-> filter_investment_outliers(
                                  <<FilterVariant(a, 1), FilterVariant(b, 2)>>)]
    /\ UNCHANGED pipelineVars

\* <<column, cell>>: cells of FilterBaseRow replaced for a call of
\* calculate_property_ranking, inside and outside the ranges the filter lets
\* through, empty and not numeric (rate cells in 1/100)
RankingVariants ==
    <<<<"property_id", 1>>,
      <<"cap_rate", 0 - 10000>>, <<"cap_rate", 0 - 500>>, <<"cap_rate", 0 - 150>>,
      <<"cap_rate", 0>>, <<"cap_rate", 300>>, <<"cap_rate", 1500>>,
      <<"cap_rate", None>>, <<"cap_rate", Bad>>,
      <<"cash_on_cash", 0 - 1500>>, <<"cash_on_cash", 2500>>,
      <<"irr", 0 - 2500>>, <<"irr", 3500>>, <<"irr", Bad>>,
      <<"gross_rent_multiplier", 501>>, <<"gross_rent_multiplier", 3500>>,
      <<"gross_rent_multiplier", 6000>>,
      <<"total_return", 0 - 10000>>, <<"total_return", 0 - 100>>,
      <<"total_return", 100>>, <<"total_return", 200>>, <<"total_return", 100000>>,
      <<"total_return", None>>,
      <<"zip_code", None>>, <<"zip_code", Bad>>, <<"zip_code", 10013>>,
      <<"list_price", None>>, <<"list_price", Bad>>,
      <<"down_payment_pct", None>>, <<"interest_rate", None>>,
      <<"zori_growth_rate", 1000>>, <<"total_principal_paid", Bad>>>>

RankingRow(a, b) ==
    [[FilterBaseRow EXCEPT ![RankingVariants[a][1]] = RankingVariants[a][2]]
        EXCEPT ![RankingVariants[b][1]] = RankingVariants[b][2]]

\* the sub-scores are the locals of the call at its return (none when a
\* conversion raised)
CallRanking ==
    /\ call = NoCall
    /\ \E a \in 1..Len(RankingVariants), b \in 1..Len(RankingVariants) :
          call' = [op |-> "calculate_property_ranking", row |-> RankingRow(a, b),
                   raises |-> RankingRaises(RankingRow(a, b)),
                   scores |-> IF RankingRaises(RankingRow(a, b)) THEN EmptyDict
                              ELSE SubScores(RankingRow(a, b)),
                   result |-> calculate_property_ranking(RankingRow(a, b))]
    /\ UNCHANGED pipelineVars

\* the row and the metrics calculate_investment_returns is called with: the
\* metrics of calculate_mortgage_metrics with a year-5 NOI, a cap rate of 5
\* percent and the cash equity given
ReturnsRow(list_price) ==
    Update([Property(1) EXCEPT !.list_price = list_price],
           [k \in {"zori_growth_rate"} |-> 500])

ReturnsMetrics(list_price, down_payment_pct, interest_rate, loan_term, noi_year5, cash_equity) ==
    [calculate_mortgage_metrics(
         ReturnsRow(list_price),
         Update(CallMetrics(list_price, down_payment_pct, interest_rate, loan_term),
                [k \in {"noi_year5", "cap_rate"} |->
                    IF k = "noi_year5" THEN noi_year5 ELSE 50000]))
     EXCEPT !.cash_equity = IF cash_equity = None THEN @ ELSE cash_equity]

CallReturns ==
    /\ call = NoCall
    /\ \E list_price \in CallLoanPrices, down_payment_pct \in CallDownPayments,
          interest_rate \in {0, 30000, 90000}, loan_term \in {15, 25},
          noi_share \in {0, 5, 10}, cash_equity \in {None, 0, 0 - 1000000},
          solver_raises \in BOOLEAN :
          call' = [op |-> "calculate_investment_returns",
                   solver_raises |-> solver_raises,
                   metrics |-> ReturnsMetrics(list_price, down_payment_pct,
                                              interest_rate, loan_term,
                                              (list_price * noi_share) \div 100,
                                              cash_equity),
                   result |-> InvestmentReturns(
                                  ReturnsRow(list_price),
                                  ReturnsMetrics(list_price, down_payment_pct,
                                                 interest_rate, loan_term,
                                                 (list_price * noi_share) \div 100,
                                                 cash_equity),
                                  solver_raises)]
    /\ UNCHANGED pipelineVars


\* the row calculate_cash_flow_metrics is called with: the n-th catalogue
\* property with the tax and HOA cells given, after the rent-estimation stage
\* over the index rows given
CashFlowCallRow(n, tax, hoa_fee, indexRows) ==
    MergeRow(RentalEstimateRow([Property(n) EXCEPT !.tax = tax, !.hoa_fee = hoa_fee],
                               load_zori_data(indexRows, Seasonality), CallClock))

CallCashFlow ==
    /\ call = NoCall
    /\ \E n \in 1..6, tax \in {None, 0, 600000}, hoa_fee \in {None, 0, 40000},
          indexRows \in {IndexRows, <<IndexRows[5]>>} :
          call' = [op |-> "calculate_cash_flow_metrics",
                   row |-> CashFlowCallRow(n, tax, hoa_fee, indexRows),
                   result |-> calculate_cash_flow_metrics(
                                  CashFlowCallRow(n, tax, hoa_fee, indexRows))]
    /\ UNCHANGED pipelineVars


\* calculate_growth_rate called directly: a one-ZIP growth table with CAGRs
\* (1/100 percent) below, inside and above [2, 6], a ZIP with and without
\* growth data, every property style of the table and one outside it
CallCagrs == {0 - 300, 0, 150, 200, 350, 600, 700, 2500}
CallStyles ==
    {"Condo", "Co-op", "Single Family", "Multi Family", "Townhouse", "Luxury", "default"}

GrowthTable(cagr) == <<[zip |-> 10025, state |-> "NY", rent |-> 380000, cagr |-> cagr]>>

CallGrowthRate ==
    /\ call = NoCall
    /\ \E zip_code \in {10025, 10026}, cagr \in CallCagrs,
          neighborhood_factor \in CallFactors, property_style \in CallStyles :
          call' = [op |-> "calculate_growth_rate", zip_code |-> zip_code,
                   five_year_cagr |-> IF zip_code = 10025 THEN cagr ELSE None,
                   neighborhood_factor |-> neighborhood_factor,
                   property_style |-> property_style,
                   result |-> calculate_growth_rate(zip_code, neighborhood_factor,
                                                    property_style, GrowthTable(cagr))]
    /\ UNCHANGED pipelineVars


\* estimate_rental_income called on rows that differ in style, bedrooms,
\* bathrooms, size, age and amenities, in a winter, a summer and a later month
LayoutStyles == {"Multi Family", "Condo", ""}
LayoutBeds == {2, 3, 4, 5, 6, 9}
LayoutBaths == {1, 3}
LayoutSqft == {900, 2400}
LayoutYears == {1930, 2018}
\* description keywords, parking_garage, hoa_fee (cents)
LayoutAmenities == {<<0, None, None>>, <<3, 1, 120000>>}

LayoutIndex ==
    [entries |-> StoredRows(IndexRows), avg_seasonality |-> Seasonality,
     state_averages |-> [st \in {"NY"} |-> 310000]]

LayoutRow(style, beds, full_baths, sqft, year_built, amenities) ==
    [Property(2) EXCEPT !.style = style, !.beds = beds, !.full_baths = full_baths,
                        !.sqft = sqft, !.year_built = year_built,
                        !.text = amenities[1], !.parking_garage = amenities[2],
                        !.hoa_fee = amenities[3]]

CallEstimateLayout ==
    /\ call = NoCall
    /\ \E style \in LayoutStyles, beds \in LayoutBeds, full_baths \in LayoutBaths,
          sqft \in LayoutSqft, year_built \in LayoutYears,
          amenities \in LayoutAmenities, clock \in Clocks :
          call' = [op |-> "estimate_rental_income",
                   row |-> LayoutRow(style, beds, full_baths, sqft, year_built, amenities),
                   entries |-> LayoutIndex.entries,
                   state_averages |-> LayoutIndex.state_averages,
                   clock |-> clock,
                   result |-> estimate_rental_income(
                                  LayoutRow(style, beds, full_baths, sqft, year_built,
                                            amenities),
                                  LayoutIndex, clock)]
    /\ UNCHANGED pipelineVars


\* calculate_amenity_score called directly: the count of luxury keywords in the
\* description (17 keywords exist), the parking_garage cell and the hoa_fee
\* cell in cents, around 500 and 1000 dollars
AmenityKeywords == {0, 1, 3, 17}
AmenityParking == {None, 0, 1, 2}
AmenityHoaFees == {None, Bad, 0, 40000, 50000, 50001, 100000, 100001, 150000}

AmenityRow(text, parking_garage, hoa_fee) ==
    [Property(1) EXCEPT !.text = text, !.parking_garage = parking_garage,
                        !.hoa_fee = hoa_fee]

CallAmenityScore ==
    /\ call = NoCall
    /\ \E text \in AmenityKeywords, parking_garage \in AmenityParking,
          hoa_fee \in AmenityHoaFees :
          call' = [op |-> "calculate_amenity_score",
                   row |-> AmenityRow(text, parking_garage, hoa_fee),
                   result |-> calculate_amenity_score(
                                  AmenityRow(text, parking_garage, hoa_fee))]
    /\ UNCHANGED pipelineVars


\* the input file of the standalone filter: rows with the columns of the final
\* output, one cell replaced (<<"set", column, cell>>), one column absent
\* from the file (<<"drop", column, 0>>) or one cell more than the header
StandaloneVariants ==
    <<<<"set", "property_id", 1>>,
      <<"set", "list_price", None>>, <<"set", "list_price", 0>>,
      <<"set", "list_price", 7999900>>, <<"set", "list_price", 8000000>>,
      <<"set", "list_price", 320000000>>, <<"set", "list_price", 320000100>>,
      <<"set", "beds", 0>>, <<"set", "beds", Bad>>, <<"set", "full_baths", None>>,
      <<"set", "sqft", 0>>, <<"set", "sqft", 0 - 1600>>,
      <<"set", "zori_monthly_rent", Bad>>,
      <<"set", "annual_rent", 0>>, <<"set", "annual_rent", 0 - 10000>>,
      <<"set", "annual_rent", 1801900>>,
      <<"set", "cap_rate", 99>>, <<"set", "cap_rate", 100>>, <<"set", "cap_rate", 1500>>,
      <<"set", "cap_rate", 1501>>, <<"set", "cap_rate", Bad>>,
      <<"set", "cash_on_cash", 0 - 1001>>, <<"set", "cash_on_cash", 0 - 1000>>,
      <<"set", "cash_on_cash", 2000>>, <<"set", "cash_on_cash", 2001>>,
      <<"set", "irr", 0 - 1001>>, <<"set", "irr", 0 - 1000>>, <<"set", "irr", 3500>>,
      <<"set", "irr", 3501>>, <<"drop", "irr", 0>>,
      <<"set", "total_return", None>>, <<"set", "total_return", 0>>,
      <<"set", "gross_rent_multiplier", 599>>, <<"set", "gross_rent_multiplier", 600>>,
      <<"set", "gross_rent_multiplier", 3000>>, <<"set", "gross_rent_multiplier", 3001>>,
      <<"set", "gross_rent_multiplier", 0>>, <<"set", "gross_rent_multiplier", None>>,
      <<"set", "gross_rent_multiplier", Bad>>, <<"drop", "gross_rent_multiplier", 0>>,
      <<"set", "annual_debt_service", 7955400>>, <<"set", "annual_debt_service", 7955500>>,
      <<"set", "annual_debt_service", None>>, <<"set", "annual_debt_service", Bad>>,
      <<"drop", "annual_debt_service", 0>>,
      <<"set", "restkey", 1>>, <<"set", "lcf_year1", 0 - 9000000>>>>

StandaloneRow(n, id) ==
    LET v == StandaloneVariants[n]
        base == [FilterBaseRow EXCEPT !.property_id = id]
    IN IF v[1] = "drop" THEN [k \in DOMAIN base \ {v[2]} |-> base[k]]
       ELSE IF v[2] = "property_id" THEN base
       ELSE Update(base, [k \in {v[2]} |-> v[3]])

CallStandaloneFilter ==
    /\ call = NoCall
    /\ \E a \in 1..Len(StandaloneVariants), b \in {1, 12, 17, 46} :
          \E rows \in {<<StandaloneRow(a, 1), StandaloneRow(b, 2)>>,
                       <<StandaloneRow(b, 1), StandaloneRow(a, 2), StandaloneRow(1, 3)>>} :
              call' = [op |-> "filter.main", rows |-> rows, result |-> FilterMain(rows)]
    /\ UNCHANGED pipelineVars


\* find_closest_zip_with_data called directly: targets in and between the
\* index ZIPs (10019 and 10028 are as far from one index ZIP as from another),
\* ZIP 0 of a row without zip_code; rent dicts in file order and reversed,
\* with and without integer keys
ClosestTargets == {0, 10013, 10019, 10025, 10026, 10028, 10030, 50000, 99999}
ClosestIndexes ==
    {<<>>, <<TextKeyEntry>>, StoredRows(IndexRows),
     <<IndexRows[2], IndexRows[1]>>, <<IndexRows[1], IndexRows[2]>>,
     <<IndexRows[3], IndexRows[2]>>, <<IndexRows[4], TextKeyEntry, IndexRows[3], IndexRows[1]>>,
     <<TextKeyEntry, IndexRows[4]>>}

CallClosestZip ==
    /\ call = NoCall
    /\ \E target_zip \in ClosestTargets, entries \in ClosestIndexes :
          call' = [op |-> "find_closest_zip_with_data", target_zip |-> target_zip,
                   entries |-> entries,
                   result |-> find_closest_zip_with_data(target_zip, entries)]
    /\ UNCHANGED pipelineVars


\* calculate_exit_cap_rate called directly, in 1/10^6: entry cap rates from
\* -5 percent to 100 percent as decimals, and 1.5, 5 and 12 given as
\* percentages (an argument above 1 is divided by 100, lines 667-668);
\* growth rates from 0 to 10 percent
CallEntryCapRates ==
    {0 - 50000, 0, 30000, 40000, 72400, 95000, 100000, 100100, 150000, 1000000,
     1500000, 5000000, 12000000}
CallGrowthRates == {0, 20000, 30000, 53500, 100000}

CallExitCapRate ==
    /\ call = NoCall
    /\ \E entry_cap_rate \in CallEntryCapRates, growth_rate \in CallGrowthRates,
          neighborhood_factor \in CallFactors :
          call' = [op |-> "calculate_exit_cap_rate", entry_cap_rate |-> entry_cap_rate,
                   growth_rate |-> growth_rate,
                   neighborhood_factor |-> neighborhood_factor,
                   result |-> calculate_exit_cap_rate(entry_cap_rate, growth_rate,
                                                      neighborhood_factor)]
    /\ UNCHANGED pipelineVars

CallReturn ==
    /\ call # NoCall
    /\ call' = NoCall
    /\ UNCHANGED pipelineVars

NextCalls ==
    \/ CallDownPayment
    \/ CallMortgageTerms
    \/ CallMortgageMetrics
    \/ CallEstimate
    \/ CallFilter
    \/ CallRanking
    \/ CallReturns
    \/ CallCashFlow
    \/ CallGrowthRate
    \/ CallEstimateLayout
    \/ CallAmenityScore
    \/ CallStandaloneFilter
    \/ CallClosestZip
    \/ CallExitCapRate
    \/ CallReturn

SpecCalls == InitCalls /\ [][NextCalls]_vars

----------------------------------------------------------------------------
(* Properties of the final output *)

FinalRecords == IF finalOut = Missing THEN {} ELSE Range(finalOut)

HasNumber(row, k) == k \in DOMAIN row /\ row[k] # None /\ row[k] # Bad

CellWithin(row, k, lo, hi) == HasNumber(row, k) /\ lo <= row[k] /\ row[k] <= hi

\* C1: every record of the final output carries a cap_rate in [-5, 15], a
\* cash_on_cash in [-15, 25], an irr in [-25, 35] and an exit_cap_rate in
\* [4, 10] percent (rate cells are in 1/100 percent).
FinalRatesWithinBounds ==
    \A r \in FinalRecords :
        /\ CellWithin(r, "cap_rate", 0 - 500, 1500)
        /\ CellWithin(r, "cash_on_cash", 0 - 1500, 2500)
        /\ CellWithin(r, "irr", 0 - 2500, 3500)
        /\ CellWithin(r, "exit_cap_rate", 400, 1000)

\* a record reaches the final output with cash_on_cash, irr and exit_cap_rate
\* held at their lower bounds by the clamps
ClampedRecordInFinalOutput ==
    \E r \in FinalRecords :
        /\ r.cash_on_cash = 0 - 1500
        /\ r.irr = 0 - 2500
        /\ r.exit_cap_rate = 400
        /\ r.cap_rate < 400

\* C2: for every row that went through the cash-flow stage and the mortgage
\* stage, loan_amount + cash_equity equals list_price + transaction_cost up to
\* 2 currency units (money cells are in cents).
LoanPlusEquityIsTotalCost ==
    tempFinal # Missing =>
        \A i \in 1..Len(tempFinal) :
            (HasNumber(tempFinal[i], "loan_amount")
             /\ HasNumber(tempFinal[i], "cash_equity")
             /\ HasNumber(tempFinal[i], "transaction_cost"))
            => Abs(tempFinal[i].loan_amount + tempFinal[i].cash_equity
                   - (tempFinal[i].list_price + tempFinal[i].transaction_cost))
               <= 200

\* C3: in every record of the final output accumulated_cash_flow is the sum of
\* the five lcf_year cells of that record.
AccumulatedIsSumOfWrittenYears ==
    \A r \in FinalRecords :
        HasNumber(r, "accumulated_cash_flow")
        => r.accumulated_cash_flow
           = CellMoney(r, "lcf_year1") + CellMoney(r, "lcf_year2")
             + CellMoney(r, "lcf_year3") + CellMoney(r, "lcf_year4")
             + CellMoney(r, "lcf_year5")

InputIds ==
    Concat([i \in 1..Len(inputFiles) |->
               [j \in 1..Len(inputFiles[i]) |-> inputFiles[i][j].property_id]])

\* C9: the merged file lists the rows of the partitions in the order of
\* PROPERTY_DATA_FILES, each partition's rows in input order, whatever the
\* order in which the workers finished.
MergedInPartitionOrder ==
    mergedZori # Missing =>
        [k \in 1..Len(mergedZori) |-> mergedZori[k].property_id] = InputIds

\* the merge has run after the workers finished out of partition order
MergedAfterOutOfOrderFinish ==
    /\ pc = "merged"
    /\ Len(mergedZori) = Len(InputIds)
    /\ \E i, j \in 1..Len(doneOrder) : i < j /\ doneOrder[i] > doneOrder[j]

\* C10: the final output is the same for a run over the same property files
\* and rent index at any other date.
OutputIndependentOfRunDate ==
    pc = "filtered" =>
        \A clock \in Clocks : finalOut = RunAt(inputFiles, zoriFile, clock)

----------------------------------------------------------------------------
(* Properties of the direct calls *)

\* C4: for a loan_amount > 0, a positive interest rate and a term of 15, 20 or
\* 25 years, calculate_mortgage_metrics yields loan_amount >= loan_balance_year1
\* >= ... >= loan_balance_year5.
BalancesNeverIncrease ==
    (/\ call.op = "calculate_mortgage_metrics"
     /\ call.result.loan_amount > 0
     /\ call.interest_rate > 0
     /\ call.loan_term \in {15, 20, 25})
    => /\ call.result.loan_amount >= call.result.loan_balance_year1
       /\ \A year \in 1..4 :
             call.result[BalanceKey[year]] >= call.result[BalanceKey[year + 1]]

\* a 25-year loan at 9 percent has been amortized over the five years
AmortizedLoanComputed ==
    /\ call.op = "calculate_mortgage_metrics"
    /\ call.loan_term = 25
    /\ call.interest_rate = 90000
    /\ call.result.loan_amount > 0
    /\ call.result.loan_balance_year5 < call.result.loan_balance_year1

\* C5 as stated: calculate_down_payment_pct(500000, 0.90) uses the 0.40 tier
\* and returns 0.3925.
DownPaymentAt500kUses40Tier ==
    (/\ call.op = "calculate_down_payment_pct"
     /\ call.list_price = 50000000
     /\ call.neighborhood_factor = 90)
    => call.result = 3925

\* C5 amended: calculate_down_payment_pct(500000, 0.90) uses the 0.45 tier
\* (500000 <= price < 750000) and returns 0.45 - (0.90 - 0.75) * 0.05 = 0.4425.
DownPaymentAt500kUses45Tier ==
    (/\ call.op = "calculate_down_payment_pct"
     /\ call.list_price = 50000000
     /\ call.neighborhood_factor = 90)
    => call.result = 4425

\* calculate_down_payment_pct(500000, 0.90) has been called
DownPaymentAt500kCalled ==
    /\ call.op = "calculate_down_payment_pct"
    /\ call.list_price = 50000000
    /\ call.neighborhood_factor = 90
    /\ call.result \in 3000..6000

\* C6: for every list price >= 0 and every neighborhood factor the down
\* payment is in [0.30, 0.60], the interest rate in [6, 9] percent, and the
\* term is 15 exactly when price < 500000, 20 exactly when 500000 <= price <
\* 750000 and 25 otherwise.
FinancingPolicyRanges ==
    /\ call.op = "calculate_down_payment_pct"
       => (3000 <= call.result /\ call.result <= 6000)
    /\ call.op = "determine_mortgage_terms"
       => /\ 600 <= call.result[1] /\ call.result[1] <= 900
          /\ call.result[2] \in {15, 20, 25}
          /\ call.result[2] = 15 <=> call.list_price < 50000000
          /\ call.result[2] = 20 <=> (50000000 <= call.list_price
                                      /\ call.list_price < 75000000)
          /\ call.result[2] = 25 <=> call.list_price >= 75000000

\* determine_mortgage_terms has been called at the 500000 boundary with a
\* neighborhood factor that drives the rate below 6 percent
RateClampedAtTierBoundary ==
    /\ call.op = "determine_mortgage_terms"
    /\ call.list_price = 50000000
    /\ call.neighborhood_factor = 300
    /\ call.result = <<600, 20>>

\* the base rents the resolution order of C7 allows for the call
ExpectedBaseRents(row, entries, state_averages) ==
    IF ZipOf(row) \in IndexZips(entries)
    THEN {entries[i].rent : i \in {j \in 1..Len(entries) : entries[j].zip = ZipOf(row)}}
    ELSE IF \E j \in 1..Len(entries) : ~ IsBad(entries[j].zip)
    THEN {entries[i].rent :
            i \in {j \in 1..Len(entries) :
                     /\ ~ IsBad(entries[j].zip)
                     /\ \A k \in 1..Len(entries) :
                            \/ IsBad(entries[k].zip)
                            \/ Abs(entries[j].zip - ZipOf(row))
                               <= Abs(entries[k].zip - ZipOf(row))}}
    ELSE IF row.state \in DOMAIN state_averages
    THEN {state_averages[row.state]}
    ELSE {}

----------------------------------------------------------------------------
(* Properties of the outlier filter *)

\* a cell as a comparison reads it: an empty cell counts as 0
ReadAs0(row, k) == IF HasNumber(row, k) THEN row[k] ELSE 0

\* the conditions C11 lists, on the cells of a record (rates in 1/100, money
\* in cents); the price-to-rent ratio exists when annual_rent is positive
ListedDropCondition(r) ==
    \/ Abs(ReadAs0(r, "cap_rate")) > 1500
    \/ Abs(ReadAs0(r, "irr")) > 3500
    \/ Abs(ReadAs0(r, "cash_on_cash")) > 2500
    \/ ReadAs0(r, "gross_rent_multiplier") <= 500
    \/ ReadAs0(r, "gross_rent_multiplier") > 6000
    \/ ReadAs0(r, "lcf_year1") < 0 - 5000000
    \/ ReadAs0(r, "ucf_year1") < 0 - 3000000
    \/ /\ ReadAs0(r, "annual_rent") > 0
       /\ \/ ReadAs0(r, "list_price") > 60 * ReadAs0(r, "annual_rent")
          \/ ReadAs0(r, "list_price") < 5 * ReadAs0(r, "annual_rent")

\* one of the eight cells the filter reads holds text that is not a number
UnreadableFilterCell(r) ==
    \E k \in {"cap_rate", "irr", "cash_on_cash", "gross_rent_multiplier",
              "lcf_year1", "ucf_year1", "list_price", "annual_rent"} :
        k \in DOMAIN r /\ r[k] = Bad

IdsOf(rows) == [i \in 1..Len(rows) |-> rows[i].property_id]

\* the records written carry the cells of the input record, dollar cells in
\* whole dollars, and the two ranking columns
WrittenAsRanked(written, kept) ==
    /\ Len(written) = Len(kept)
    /\ \A i \in 1..Len(kept) :
          /\ DOMAIN written[i]
             = DOMAIN kept[i] \cup {"investment_score", "investment_ranking"}
          /\ \A k \in DOMAIN kept[i] : written[i][k] = process_row_values(kept[i])[k]
          /\ written[i].investment_ranking \in 1..10

----------------------------------------------------------------------------
(* Properties of the ranking *)

\* C12: for every input row, rows with empty or non-numeric cells included,
\* calculate_property_ranking returns a score in [1, 10] and an integer
\* ranking in 1..10 within 0.5 of the score; when a conversion fails it
\* returns the default (5.0, 5).  The score is in 1/100 points.
RankingWithinScale ==
    call.op = "calculate_property_ranking" =>
        /\ 100 <= call.result[1] /\ call.result[1] <= 1000
        /\ call.result[2] \in 1..10
        /\ Abs(100 * call.result[2] - call.result[1]) <= 50
        /\ call.raises => call.result = <<500, 5>>

\* the ranking has been asked for a row with a cap_rate of -100 percent and
\* an irr cell that is not a number, and the default came back
RankingDefaultReturned ==
    /\ call.op = "calculate_property_ranking"
    /\ call.row.cap_rate = 0 - 10000
    /\ call.row.irr = Bad
    /\ call.raises
    /\ call.result = <<500, 5>>

\* the row's cells are inside the ranges the outlier filter lets through
InFilterRanges(row) ==
    /\ 0 - 500 <= ReadAs0(row, "cap_rate") /\ ReadAs0(row, "cap_rate") <= 1500
    /\ 0 - 1500 <= ReadAs0(row, "cash_on_cash") /\ ReadAs0(row, "cash_on_cash") <= 2500
    /\ 0 - 2500 <= ReadAs0(row, "irr") /\ ReadAs0(row, "irr") <= 3500
    /\ 500 < ReadAs0(row, "gross_rent_multiplier")
    /\ ReadAs0(row, "gross_rent_multiplier") <= 6000

\* C15: each of the nine sub-scores of calculate_property_ranking lies in
\* [1, 10] for a record with cap_rate in [-5, 15], cash_on_cash in [-15, 25],
\* irr in [-25, 35], GRM in (5, 60] and any total_return (sub-scores in
\* 1/10000 points).
SubScoresWithinScale ==
    (/\ call.op = "calculate_property_ranking"
     /\ ~ call.raises
     /\ InFilterRanges(call.row))
    => \A k \in DOMAIN call.scores :
           10000 <= call.scores[k] /\ call.scores[k] <= 100000

----------------------------------------------------------------------------
(* Properties of the records across the stages *)

\* C13: in every record of the final output every non-empty dollar field is a
\* whole number of dollars (a multiple of 100 cents).  The rate cells of the
\* model are held in 1/100 of their unit, so their two decimals are not a
\* property the model can fail.
FinalDollarFieldsWhole ==
    \A r \in FinalRecords :
        \A k \in DOMAIN r \cap DOLLAR_FIELDS :
            r[k] # None => (r[k] # Bad /\ r[k] % 100 = 0)

\* every field of the record before is in the record after with the same value
Extends(before, after) ==
    \A k \in DOMAIN before : k \in DOMAIN after /\ after[k] = before[k]

\* the j-th record of the file read by a stage is extended by the j-th record
\* of the file the stage wrote
FileExtended(read, written) ==
    (read # Missing /\ written # Missing) =>
        \A j \in 1..Len(written) : Extends(read[j], written[j])

\* C14: each stage only extends the record: every field present when the
\* stage starts has the same value when it ends.  Checked for the cash-flow
\* stage, the final-metrics stage and the outlier filter over the files they
\* read and wrote.
StagesOnlyExtend ==
    /\ FileExtended(mergedZori, mergedCashFlow)
    /\ FileExtended(mergedCashFlow, tempFinal)
    /\ \A r \in FinalRecords :
           \A j \in 1..Len(tempFinal) :
               tempFinal[j].property_id = r.property_id => Extends(tempFinal[j], r)

----------------------------------------------------------------------------
(* Properties of the rent estimate on unreadable input *)

\* the index estimate_rental_income was called with
CallIndex ==
    [entries |-> call.entries, avg_seasonality |-> Seasonality,
     state_averages |-> call.state_averages]

\* C16 as stated: whenever a numeric input (zip_code, beds, full_baths,
\* half_baths, sqft, year_built) is missing or not convertible to a number,
\* estimate_rental_income returns None for all five outputs.
EstimateNoneOnMissingOrUnreadable ==
    call.op = "estimate_rental_income" =>
        ((\E k \in EstimateInputs : call.row[k] \in {None, Bad})
         => call.result = NoEstimate)

\* C16 amended: when a numeric input holds text that is not a number,
\* estimate_rental_income returns None for all five outputs; an empty numeric
\* input is read as 0, so the call returns what it returns for the same row
\* with 0 in that cell.
EstimateNoneOnUnreadableOnly ==
    call.op = "estimate_rental_income" =>
        /\ (\E k \in EstimateInputs : call.row[k] = Bad) => call.result = NoEstimate
        /\ \A k \in EstimateInputs :
               call.row[k] = None =>
                   call.result = estimate_rental_income([call.row EXCEPT ![k] = 0],
                                                        CallIndex, now)

\* the estimate has been asked for a row with an empty beds cell whose ZIP is
\* in the index, and a rent came back
EstimateReturnedForEmptyBeds ==
    /\ call.op = "estimate_rental_income"
    /\ call.row.beds = None
    /\ call.row.zip_code \in IndexZips(call.entries)
    /\ call.result # NoEstimate
    /\ call.result.monthly_rent > 0

----------------------------------------------------------------------------
(* Properties of the batch *)

\* C17: a failure while computing a single property never aborts a stage (a
\* worker fails only when its file cannot be opened), and every stage before
\* the outlier filter writes one row per input row in input order.
SingleRowNeverAbortsStage ==
    /\ \A i \in Partitions : task[i] = "failed" => inputFiles[i] = Missing
    /\ mergedZori # Missing => IdsOf(mergedZori) = InputIds
    /\ mergedCashFlow # Missing => IdsOf(mergedCashFlow) = InputIds
    /\ tempFinal # Missing => IdsOf(tempFinal) = InputIds

\* no file of a later stage exists
NothingAfterEstimation ==
    /\ mergedZori = Missing /\ mergedCashFlow = Missing
    /\ tempFinal = Missing /\ finalOut = Missing

\* C18, the states: once the merge has started every worker has finished its
\* file; when a worker has failed there is no merged file and no file of a
\* later stage, and the run can only end with status 1.
MergeOnlyAfterAllWorkers ==
    /\ pc \in {"merged", "cashflow", "returns", "filtered", "done"} =>
           \A i \in Partitions :
               task[i] = "done" /\ cursor[i] = Len(inputFiles[i])
    /\ (\E i \in Partitions : task[i] = "failed") =>
           /\ NothingAfterEstimation
           /\ pc \in {"estimating", "failed"}
           /\ exitCode = IF pc = "failed" THEN 1 ELSE None

\* C18, the steps: a step changes the temporary file of at most one
\* partition, the one whose worker is running after the step, and the merged
\* file is written in a step that starts with every worker done.
WorkerWritesOwnFile ==
    /\ pc = "estimating" =>
           \A i \in Partitions :
               tempZori'[i] # tempZori[i] =>
                   /\ task'[i] = "running"
                   /\ \A j \in Partitions \ {i} : tempZori'[j] = tempZori[j]
    /\ (mergedZori = Missing /\ mergedZori' # Missing) =>
           \A i \in Partitions : task[i] = "done" /\ tempZori[i] # Missing

\* C18: the merge starts only after every worker has finished its own file,
\* each worker writes only the temporary file of its partition, and when a
\* worker fails no merge and no later stage runs and the exit status is 1.
MergeWaitsForWorkers == [] MergeOnlyAfterAllWorkers /\ [][WorkerWritesOwnFile]_vars

\* a worker failed at a row while another had written its whole file, and
\* the run ended with status 1 without a merged file
RunFailedAfterWorkerFailure ==
    /\ pc = "failed" /\ exitCode = 1
    /\ \E i \in Partitions :
           /\ task[i] = "failed" /\ inputFiles[i] # Missing
           /\ Len(tempZori[i]) < Len(inputFiles[i])
    /\ \E i \in Partitions :
           task[i] = "done" /\ Len(tempZori[i]) = Len(inputFiles[i])
    /\ NothingAfterEstimation

----------------------------------------------------------------------------
(* Properties of the mortgage and return metrics *)

\* C19: when the monthly rate or the number of periods is not positive,
\* calculate_mortgage_metrics sets monthly_payment and annual_debt_service to
\* 0 and still returns principal_paid, loan_balance and lcf for years 1..5,
\* with lcf_year_t = ucf_year_t, and accumulated_cash_flow.
ZeroRateLoanStillScheduled ==
    (/\ call.op = "calculate_mortgage_metrics"
     /\ (call.interest_rate <= 0 \/ call.loan_term <= 0))
    => /\ call.result.monthly_payment = 0
       /\ call.result.annual_debt_service = 0
       /\ (Range(PrincipalKey) \cup Range(BalanceKey) \cup Range(LcfKey)
           \cup {"accumulated_cash_flow"}) \subseteq DOMAIN call.result
       /\ \A year \in 1..5 : call.result[LcfKey[year]] = call.result[UcfKey[year]]

\* the cash-flow vector of the claim, from the metrics the call was given and
\* the exit value it stored
ClaimedCashFlows(metrics, result) ==
    <<0 - metrics.cash_equity, metrics.lcf_year1, metrics.lcf_year2,
      metrics.lcf_year3, metrics.lcf_year4,
      metrics.lcf_year5 + (result.exit_value - metrics.final_loan_balance)>>

\* irr (x4 percent) is the rate at which the net present value of the vector
\* is zero, clamped to [-25, 35]
IsClampedRoot(cash_flows, irr) ==
    \/ irr = 350000 /\ FutureValue(cash_flows, 350000, 0) >= 0
    \/ irr = 0 - 250000 /\ FutureValue(cash_flows, 0 - 250000, 0) <= 0
    \/ /\ 0 - 250000 <= irr /\ irr < 350000
       /\ FutureValue(cash_flows, irr, 0) >= 0
       /\ FutureValue(cash_flows, irr + 1, 0) < 0

\* C20: calculate_investment_returns sets cash_on_cash, irr and total_return
\* to 0 when cash_equity <= 0; otherwise, over the vector [-cash_equity,
\* lcf_year1..4, lcf_year5 + (exit_value - final_loan_balance)], irr is -25
\* when no entry after the first is positive, 0 when the solver raises, and
\* else the solver's result clamped to [-25, 35].  Metrics without the lcf
\* keys (a mortgage computation that failed) give a vector with no entry
\* after the first.
ReturnsFromCashFlowVector ==
    call.op = "calculate_investment_returns" =>
        IF call.metrics.cash_equity <= 0
        THEN /\ call.result.cash_on_cash = 0
             /\ call.result.irr = 0
             /\ call.result.total_return = 0
        ELSE IF ~ (Range(LcfKey) \subseteq DOMAIN call.metrics)
        THEN call.result.irr = 0 - 250000
        ELSE IF \A i \in 2..6 : ClaimedCashFlows(call.metrics, call.result)[i] <= 0
        THEN call.result.irr = 0 - 250000
        ELSE IF call.solver_raises
        THEN call.result.irr = 0
        ELSE IsClampedRoot(ClaimedCashFlows(call.metrics, call.result),
                           call.result.irr)

\* the returns have been computed for negative yearly cash flows that the
\* exit proceeds of year 5 outweigh: the irr is a root strictly inside the
\* bounds
IrrFromExitProceeds ==
    /\ call.op = "calculate_investment_returns"
    /\ ~ call.solver_raises
    /\ call.metrics.cash_equity > 0
    /\ Range(LcfKey) \subseteq DOMAIN call.metrics
    /\ call.metrics.lcf_year5 < 0
    /\ call.result.exit_value - call.metrics.final_loan_balance > 0
    /\ call.result.irr > 0 /\ call.result.irr < 350000

----------------------------------------------------------------------------
(* Properties of the cash-flow metrics *)

\* the growth rate (x4 percent) the cash-flow stage uses for the row
StatedGrowth(row) ==
    IF row.zori_monthly_rent # None THEN 100 * row.zori_growth_rate ELSE 30000

\* NOI of the claim for a year's rent: rent less 12 HOA fees, 18 percent of
\* the rent and 0.5 percent of the list price
StatedNoi(rent, hoa_fee, list_price) ==
    rent - (12 * hoa_fee + MulDivRound(rent, 18, 100) + MulDivRound(list_price, 5, 1000))

StatedTax(row) ==
    IF row.tax = None \/ row.tax = 0 THEN row.list_price \div 100 ELSE row.tax

StatedHoa(row) ==
    IF row.hoa_fee = None \/ row.hoa_fee = 0
    THEN MulDivRound(row.list_price, 15, 120000) ELSE row.hoa_fee

\* C21: for years t = 1..5 calculate_cash_flow_metrics computes NOI_t = rent_t
\* - (12 HOA + 18% of rent_t + 0.5% of list price), rent_1 the annual rent and
\* rent_{t+1} = rent_t (1 + growth), and UCF_t = NOI_t - tax; the tax is 1% of
\* the list price and the monthly HOA fee 0.15% of it over 12 when the
\* listing's cell is 0 or missing.  NOI is compared to within 2 cents (the
\* three expense shares are rounded one by one).
CashFlowYearsAsStated ==
    (/\ call.op = "calculate_cash_flow_metrics"
     /\ call.result # EmptyDict)
    => /\ call.result.tax_used = StatedTax(call.row)
       /\ call.result.hoa_fee_used = StatedHoa(call.row)
       /\ \A t \in 1..5 :
             /\ Abs(call.result[NoiKey[t]]
                    - StatedNoi(Projections(call.result.annual_rent,
                                            StatedGrowth(call.row), 5)[t],
                                StatedHoa(call.row), call.row.list_price)) <= 2
             /\ call.result[UcfKey[t]] = call.result[NoiKey[t]] - StatedTax(call.row)

\* the metrics have been computed for a listing without tax and HOA cells:
\* both defaults were used and the NOI grows with the rent
CashFlowWithDefaultCosts ==
    /\ call.op = "calculate_cash_flow_metrics"
    /\ call.row.tax = None /\ call.row.hoa_fee = None
    /\ call.result # EmptyDict
    /\ call.result.tax_used = call.row.list_price \div 100
    /\ call.result.hoa_fee_used > 0
    /\ call.result.noi_year2 > call.result.noi_year1
    /\ call.result.ucf_year1 < call.result.noi_year1

----------------------------------------------------------------------------
(* Properties of the growth rate *)

GrowthCalls == call.op = "calculate_growth_rate"

\* the increments of the claim in 1/100 percentage point: the neighborhood
\* factor times 0.02 and the growth modifier less one times 0.01, as percent
NeighborhoodIncrement(neighborhood_factor) == 2 * neighborhood_factor
PropertyTypeIncrement(property_style) == GrowthModifier(property_style) - 100

\* C22: calculate_growth_rate returns clamp(clamp(cagr, 2, 6) + neighborhood
\* increment + property-type increment, 2, 10) percent, the CAGR of a ZIP
\* without growth data being 3 percent; for a factor in [0.75, 0.95] the
\* neighborhood increment is at most 2 points, the property-type increment is
\* at most 1 point for every style, and the result lies in [2, 10] percent
\* for every CAGR (the result is in 1/10000 percent).
GrowthRateAsStated ==
    GrowthCalls =>
        LET cagr == IF call.five_year_cagr = None THEN 300 ELSE call.five_year_cagr
            inc_n == NeighborhoodIncrement(call.neighborhood_factor)
            inc_p == PropertyTypeIncrement(call.property_style)
        IN /\ call.result = 100 * Clamp(200, 1000, Clamp(200, 600, cagr) + inc_n + inc_p)
           /\ call.neighborhood_factor \in 75..95 => inc_n <= 200
           /\ inc_p <= 100
           /\ call.neighborhood_factor \in 75..95 =>
                  20000 <= call.result /\ call.result <= 100000

\* a negative CAGR is raised to 2 percent before the increments are added
GrowthOfNegativeCagr ==
    /\ GrowthCalls
    /\ call.five_year_cagr = 0 - 300
    /\ call.neighborhood_factor = 90
    /\ call.property_style = "Condo"
    /\ call.result = 38500

----------------------------------------------------------------------------
(* Properties of the adjusted rent *)

EstimateCalls == call.op = "estimate_rental_income" /\ call.result # NoEstimate

CallBaseRent == ResolveBaseRent(call.row, call.entries, call.state_averages).base_zori_rent

MultiUnitCall ==
    /\ EstimateCalls
    /\ StyleOf(call.row) = "Multi Family"
    /\ Float0(call.row.beds) >= 4

\* the weighted factor of the claim in 1/10^7: 0.35 bed/bath + 0.25 size
\* + 0.15 condition + 0.15 amenity + 0.10 property type (factors in 1/100,
\* the bed/bath factor in 1/10^7)
StatedWeightedFactor(row, clock) ==
    (35 * calculate_bed_bath_factor(Float0(row.beds),
                                    2 * Float0(row.full_baths) + Float0(row.half_baths))
     + 2500000 * calculate_size_factor(Float0(row.sqft))
     + 1500000 * calculate_condition_factor(Float0(row.year_built), clock.year)
     + 1500000 * calculate_amenity_score(row)
     + 1000000 * RentModifier(StyleOf(row))) \div 100

\* the rent of the same call had the row another layout or the call another month
RentOfVariant(full_baths, sqft, year_built, amenities, clock) ==
    estimate_rental_income(
        LayoutRow(call.row.style, call.row.beds, full_baths, sqft, year_built, amenities),
        LayoutIndex, clock).monthly_rent

\* C23: for a Multi Family row with at least 4 bedrooms the monthly rent is
\* the base rent times max(2, beds // 2) times 0.85, whatever the bathrooms,
\* size, year built, amenities and the month of the run; for every other row
\* it is the base rent times the weighted factor (0.35 bed/bath, 0.25 size,
\* 0.15 condition, 0.15 amenity, 0.10 property type) times the seasonality
\* factor of the month.
MultiUnitRentByUnitsElseWeighted ==
    EstimateCalls =>
        IF MultiUnitCall
        THEN /\ call.result.monthly_rent
                    = MulDivRound(CallBaseRent * Max(2, Float0(call.row.beds) \div 2),
                                  85, 100)
             /\ call.entries = LayoutIndex.entries /\ call.row.property_id = 2 =>
                    \A full_baths \in LayoutBaths, sqft \in LayoutSqft,
                       year_built \in LayoutYears, amenities \in LayoutAmenities,
                       clock \in Clocks :
                        RentOfVariant(full_baths, sqft, year_built, amenities, clock)
                            = call.result.monthly_rent
        ELSE call.result.monthly_rent
                 = MulDivRound(CallBaseRent,
                               MulDivRound(StatedWeightedFactor(call.row, call.clock),
                                           SeasonalityFactor(Seasonality, call.clock),
                                           10000),
                               10000000)

\* a five-bedroom Multi Family row rents as two units in a summer month
FiveBedMultiFamilyRentsTwoUnits ==
    /\ MultiUnitCall
    /\ call.row.beds = 5
    /\ call.row.sqft = 2400
    /\ call.clock.month = 7
    /\ call.result.monthly_rent = (CallBaseRent * 2 * 85) \div 100

----------------------------------------------------------------------------
(* Properties of the amenity score *)

\* the HOA bonus of the claim in 1/100: 0.10 above 1000 dollars, 0.05 above
\* 500 and up to 1000 dollars, nothing otherwise
StatedHoaBonus(row) ==
    IF IsBad(row.hoa_fee) THEN 0
    ELSE IF Float0(row.hoa_fee) > 100000 THEN 10
    ELSE IF Float0(row.hoa_fee) > 50000 THEN 5
    ELSE 0

\* C24: calculate_amenity_score is 1.0 plus min(0.20, 0.01 per luxury keyword
\* of the description), plus 0.05 when parking_garage > 0, plus the HOA bonus:
\* 0.10 when hoa_fee > 1000, 0.05 when 500 < hoa_fee <= 1000, else nothing
\* (the score is in 1/100).
AmenityScoreAsStated ==
    call.op = "calculate_amenity_score" =>
        call.result = 100 + Min(20, Float0(call.row.text))
                      + (IF Float0(call.row.parking_garage) > 0 THEN 5 ELSE 0)
                      + StatedHoaBonus(call.row)

----------------------------------------------------------------------------
(* Properties of the standalone filter *)

\* the cell is a number
IsNumber(row, k) == k \in DOMAIN row /\ row[k] # None /\ row[k] # Bad

\* list_price / sqft in [50, 2000] dollars, for either sign of sqft
StatedPricePerSqft(row) ==
    IF row.sqft > 0
    THEN 5000 * row.sqft <= row.list_price /\ row.list_price <= 200000 * row.sqft
    ELSE 5000 * row.sqft >= row.list_price /\ row.list_price >= 200000 * row.sqft

\* the conditions the claim lists for a valid row
StatedValid(row) ==
    /\ \A i \in 1..Len(ESSENTIAL_FIELDS) :
           IsNumber(row, ESSENTIAL_FIELDS[i]) /\ row[ESSENTIAL_FIELDS[i]] # 0
    /\ 100 <= row.cap_rate /\ row.cap_rate <= 1500
    /\ 0 - 1000 <= row.cash_on_cash /\ row.cash_on_cash <= 2000
    /\ 0 - 1000 <= row.irr /\ row.irr <= 3500
    /\ IsNumber(row, "gross_rent_multiplier") =>
           600 <= row.gross_rent_multiplier /\ row.gross_rent_multiplier <= 3000
    /\ StatedPricePerSqft(row)
    /\ IsNumber(row, "annual_debt_service") =>
           2 * row.annual_debt_service <= 3 * row.annual_rent

\* C25: the standalone filter writes a row exactly when is_valid_property
\* holds, in input order, and is_valid_property holds only if every essential
\* field is present, numeric and non-zero, cap_rate is in [1, 15],
\* cash_on_cash in [-10, 20], irr in [-10, 35], gross_rent_multiplier (when
\* present) in [6, 30], price per sqft in [50, 2000] and annual_debt_service
\* at most 1.5 times annual_rent.
StandaloneFilterAsStated ==
    call.op = "filter.main" =>
        /\ call.result.written = SelectSeq(call.rows, is_valid_property)
        /\ \A i \in 1..Len(call.rows) :
               is_valid_property(call.rows[i]) => StatedValid(call.rows[i])

----------------------------------------------------------------------------
(* Properties of the ZIP coverage *)

\* the positions of the index whose key is an integer
IntegerKeys(entries) == {i \in 1..Len(entries) : ~ IsBad(entries[i].zip)}

\* the first position, in index order, at the least distance from the target
FirstClosest(entries, target) ==
    CHOOSE i \in IntegerKeys(entries) :
        \A j \in IntegerKeys(entries) :
            \/ Abs(entries[i].zip - target) < Abs(entries[j].zip - target)
            \/ (Abs(entries[i].zip - target) = Abs(entries[j].zip - target) /\ i <= j)

\* C26: whenever the rent index holds at least one ZIP with an integer value,
\* find_closest_zip_with_data returns a ZIP for every target, the first in
\* index order among those at the least distance, and a row without zip_code
\* is looked up as ZIP 0; so estimate_rental_income takes the base rent of a
\* ZIP, never the state average, and returns all None only when a cell fails
\* to convert.  The state average and the all-None result for lack of a base
\* rent occur only with an index without integer ZIP.
IntegerIndexCoversEveryZip ==
    /\ (call.op = "find_closest_zip_with_data" /\ IntegerKeys(call.entries) # {}) =>
           /\ call.result # None
           /\ call.result = call.entries[FirstClosest(call.entries, call.target_zip)].zip
    /\ call.op = "estimate_rental_income" /\ ~ IsBad(call.row.zip_code) =>
           LET base == ResolveBaseRent(call.row, call.entries, call.state_averages)
           IN /\ base = ResolveBaseRent([call.row EXCEPT !.zip_code = Float0(@)],
                                        call.entries, call.state_averages)
              /\ IntegerKeys(call.entries) # {} =>
                     /\ base.source \in {"zip", "closest"}
                     /\ call.result = NoEstimate => EstimateRaises(call.row)
              /\ (base.source \in {"state", "none"}
                  \/ (call.result = NoEstimate /\ ~ EstimateRaises(call.row)))
                     => IntegerKeys(call.entries) = {}

\* ZIP 10019 is six away from 10025 and from 10013: the one listed first wins
TieGoesToFirstIndexZip ==
    /\ call.op = "find_closest_zip_with_data"
    /\ call.target_zip = 10019
    /\ call.entries = <<IndexRows[2], IndexRows[1]>>
    /\ call.result = 10025

----------------------------------------------------------------------------
(* Properties of the records the filter reads *)

\* the records of final.csv.temp as the filter reads them (line 1517)
FilterInputRecords ==
    IF tempFinal = Missing THEN {}
    ELSE {process_row_values(tempFinal[i]) : i \in 1..Len(tempFinal)}

RejectedByRate(r) ==
    \/ Abs(ReadAs0(r, "cap_rate")) > 1500
    \/ Abs(ReadAs0(r, "irr")) > 3500
    \/ Abs(ReadAs0(r, "cash_on_cash")) > 2500

RejectedByGrm(r) ==
    ReadAs0(r, "gross_rent_multiplier") <= 500 \/ ReadAs0(r, "gross_rent_multiplier") > 6000

RejectedByCashFlowFloor(r) ==
    ReadAs0(r, "lcf_year1") < 0 - 5000000 \/ ReadAs0(r, "ucf_year1") < 0 - 3000000

RejectedByPriceToRent(r) ==
    /\ ReadAs0(r, "annual_rent") > 0
    /\ \/ ReadAs0(r, "list_price") > 60 * ReadAs0(r, "annual_rent")
       \/ ReadAs0(r, "list_price") < 5 * ReadAs0(r, "annual_rent")

\* C27: of no record the cash-flow and return stages of the pipeline produce
\* is |cap_rate| > 15, |irr| > 35 or |cash_on_cash| > 25 true (rate cells in
\* 1/100 percent); a record the filter rejects is rejected by the GRM, the
\* cash-flow floor or the price-to-rent condition, or by a cell that does not
\* convert.
RateConditionsNeverReject ==
    \A r \in FilterInputRecords :
        /\ ~ RejectedByRate(r)
        /\ ~ PassesFilter(r) =>
               \/ UnreadableFilterCell(r)
               \/ RejectedByGrm(r)
               \/ RejectedByCashFlowFloor(r)
               \/ RejectedByPriceToRent(r)

\* a record with cash_on_cash on its lower clamp has reached the filter, and
\* the filter has rejected another one
ClampedRecordReachesFilter ==
    /\ pc = "filtered"
    /\ \E r \in FilterInputRecords :
           ~ UnreadableFilterCell(r) /\ r.cash_on_cash = 0 - 1500
    /\ \E r \in FilterInputRecords : ~ PassesFilter(r)

----------------------------------------------------------------------------
(* Properties of the neighborhood factor *)

\* the records of the merged estimates that carry a rent estimate
EstimatedRecords ==
    IF mergedZori = Missing THEN {}
    ELSE {mergedZori[i] : i \in {j \in 1..Len(mergedZori) :
                                    /\ ~ IsBad(mergedZori[j].zip_code)
                                    /\ HasNumber(mergedZori[j], "zori_growth_rate")}}

\* the ZIP the estimate of the record was made from
EstimateZipOf(r) == ResolveBaseRent(r, zori.entries, zori.state_averages).zip_code

\* C28: for a given property every stage uses the neighborhood factor of one
\* and the same ZIP: the factor in the growth rate of the rent estimate is the
\* factor the down-payment and interest policy, the exit cap rate and the
\* location sub-score use, also when the property's ZIP is not in the rent
\* index; the growth rate written is the one computed with that factor.
SameFactorInEveryStage ==
    \A r \in EstimatedRecords :
        /\ EstimateFactor(EstimateZipOf(r)) = RowFactor(r)
        /\ r.zori_growth_rate
               = Round2(calculate_growth_rate(EstimateZipOf(r), RowFactor(r),
                                              StyleOf(r), zori.entries))

----------------------------------------------------------------------------
(* Properties of the amortization schedule *)

\* the call has run the amortization loop
ScheduleComputed ==
    /\ call.op = "calculate_mortgage_metrics"
    /\ (Range(PrincipalKey) \cup Range(BalanceKey)
        \cup {"total_principal_paid", "final_loan_balance"}) \subseteq DOMAIN call.result

RECURSIVE PrincipalPaidThrough(_, _)
PrincipalPaidThrough(metrics, t) ==
    IF t = 0 THEN 0 ELSE metrics[PrincipalKey[t]] + PrincipalPaidThrough(metrics, t - 1)

\* C29: the amortization schedule conserves principal: for every year t in
\* 1..5 loan_balance_year_t is loan_amount less the principal paid in years 1
\* to t, total_principal_paid is the sum of the five yearly amounts, and
\* final_loan_balance = loan_balance_year5 = loan_amount - total_principal_paid.
ScheduleConservesPrincipal ==
    ScheduleComputed =>
        /\ \A t \in 1..5 :
               call.result[BalanceKey[t]]
                   = call.result.loan_amount - PrincipalPaidThrough(call.result, t)
        /\ call.result.total_principal_paid = PrincipalPaidThrough(call.result, 5)
        /\ call.result.final_loan_balance = call.result.loan_balance_year5
        /\ call.result.final_loan_balance
               = call.result.loan_amount - call.result.total_principal_paid

\* a 20-year loan at 7.35 percent after five years: principal has been paid
\* every year and a balance remains
FiveYearsOfPrincipalPaid ==
    /\ ScheduleComputed
    /\ call.interest_rate = 73500
    /\ call.loan_term = 20
    /\ \A t \in 1..5 : call.result[PrincipalKey[t]] > 0
    /\ 0 < call.result.final_loan_balance
    /\ call.result.final_loan_balance < call.result.loan_amount

----------------------------------------------------------------------------
(* Properties of the exit cap rate *)

\* the entry cap rate the argument stands for, in 1/10^6: an argument above 1
\* is a percentage, any other a decimal
EntryCapRateGiven(entry_cap_rate) ==
    IF entry_cap_rate > 1000000 THEN entry_cap_rate \div 100 ELSE entry_cap_rate

\* C30: calculate_exit_cap_rate never returns less than the entry cap rate
\* when the entry cap rate is at most 10 percent, returns exactly 10 percent
\* for every entry cap rate above 10 percent, and returns at least 4 percent
\* for every entry cap rate, negative ones included.
ExitCapNeverBelowEntry ==
    call.op = "calculate_exit_cap_rate" =>
        LET entry == EntryCapRateGiven(call.entry_cap_rate)
        IN /\ entry <= 100000 => call.result >= entry
           /\ entry > 100000 => call.result = 100000
           /\ call.result >= 40000

\* in the best neighborhood with rents growing 10 percent the expansion is
\* nil: an entry cap rate of 7.24 percent is returned as it is
ExitCapEqualsEntry ==
    /\ call.op = "calculate_exit_cap_rate"
    /\ call.entry_cap_rate = 72400
    /\ call.neighborhood_factor = 95
    /\ call.growth_rate = 100000
    /\ call.result = 72400

====
